---- MODULE Spec2Model ----
(***************************************************************************)
(* gtfs-sqlite (package gtfsconv): Build, setupDB and importGTFS, with the *)
(* text that importGTFS sends to the store modelled character by           *)
(* character.  Field values, statements and names are TLA+ strings; a row  *)
(* is a sequence of fields, a table a sequence of rows.                    *)
(***************************************************************************)
EXTENDS Integers, Sequences, FiniteSets, TLC

(***************************************************************************)
(* Bounds of the model.                                                    *)
(***************************************************************************)
\* most data rows taken from RowPool for one resource
MaxRows == 4
\* the batch sizes 1..MaxBatch stand in for csvReadRowsLimit
MaxBatch == 2
\* most Build runs against one target file
MaxRuns == 2
\* most resources in an archive of the multi-file inputs
MaxFiles == 2
\* longest field of the field-escaping inputs
MaxStr == 3
\* rows of one shape that group_concat may put in any order
MaxPts == 3
\* statements of one build function that may fail for an outside reason
FailPoints == 11

VARIABLES
  gtfs,              \* the archive: gtfs.File as a sequence of [name, header, rows]
  csvReadRowsLimit,  \* rows per insert statement (500 in the source)
  file,              \* the target file opt.Name: [exists, db]
  mem,               \* the ":memory:" store of a run without KeepDB
  opt,               \* Options of the run in progress
  pc,                \* position of the run in Build / setupDB / importGTFS
  fi,                \* index into gtfs.File of the resource being imported
  pos,               \* data rows of the current resource consumed by cr.Read()
  runs,              \* Build runs started so far
  stages,            \* history: stages of Build started in this run, in order
  opened,            \* history: indexes of the resources f.Open() was called on in this run
  stmts,             \* history: row counts of the insert statements issued for the current resource
  atStart,           \* history: the target file as the run in progress found it
  err                \* the error Build returns: [stage, msg, cause], NoError while there is none

vars == <<gtfs, csvReadRowsLimit, file, mem, opt, pc, fi, pos, runs,
          stages, opened, stmts, atStart, err>>

(***************************************************************************)
(* Strings (package strings, unicode/utf8).                                *)
(***************************************************************************)
Ch(s, i) == SubSeq(s, i, i)

Drop(s, k) == SubSeq(s, k + 1, Len(s))

HasPrefix(s, p) == Len(s) >= Len(p) /\ SubSeq(s, 1, Len(p)) = p

\* strings.Replace(s, old, new, -1): leftmost, non-overlapping, old not empty
RECURSIVE Replace(_, _, _)
Replace(s, old, new) ==
  LET hits == {i \in 1..(Len(s) - Len(old) + 1) : SubSeq(s, i, i + Len(old) - 1) = old} IN
  IF hits = {} THEN s
  ELSE LET i == CHOOSE h \in hits : \A j \in hits : h <= j IN
       SubSeq(s, 1, i - 1) \o new \o Replace(Drop(s, i + Len(old) - 1), old, new)

\* strings.Join(a, sep)
RECURSIVE Join(_, _)
Join(a, sep) ==
  IF Len(a) = 0 THEN ""
  ELSE IF Len(a) = 1 THEN a[1]
  ELSE a[1] \o sep \o Join(Tail(a), sep)

RECURSIVE TrimLeft(_)
TrimLeft(s) == IF Len(s) > 0 /\ Ch(s, 1) = " " THEN TrimLeft(Drop(s, 1)) ELSE s

RECURSIVE TrimRight(_)
TrimRight(s) ==
  IF Len(s) > 0 /\ Ch(s, Len(s)) = " " THEN TrimRight(SubSeq(s, 1, Len(s) - 1)) ELSE s

\* strings.TrimSpace(s); the blank stands for every white space character
TrimSpace(s) == TrimRight(TrimLeft(s))

\* "@" stands for a byte sequence that is not valid UTF-8
InvalidByte == "@"

\* utf8.ValidString(s)
ValidString(s) == \A i \in 1..Len(s) : Ch(s, i) # InvalidByte

(***************************************************************************)
(* importGTFS: from one csv record to the text of the insert statement.    *)
(***************************************************************************)
\* row := make([]string, len(header)); copy(row, r)
PadRow(r, n) == [i \in 1..n |-> IF i <= Len(r) THEN r[i] ELSE ""]

\* for i, v := range row { row[i] = strings.TrimSpace(v) }
TrimRow(row) == [i \in 1..Len(row) |-> TrimSpace(row[i])]

\* values[i] = fmt.Sprintf(`(#!%s#!)`, strings.Join(row, `#!,#!`))
RowValue(row) == "(#!" \o Join(row, "#!,#!") \o "#!)"

\* the values[i] of one batch of csv records
BatchValues(recs, n) == [i \in 1..Len(recs) |-> RowValue(TrimRow(PadRow(recs[i], n)))]

\* cleanValuesStr: join, double the single quotes, turn the markers into quotes
CleanValuesStr(values) == Replace(Replace(Join(values, ", "), "'", "''"), "#!", "'")

(***************************************************************************)
(* The store's reading of "insert into T (cols) values <text>;": a list of *)
(* parenthesised tuples of string literals.  Anything else in <text> is    *)
(* reported as an error, which is what sqlite does for every text the      *)
(* inputs of this model can produce.                                       *)
(***************************************************************************)
SqlError == [ok |-> FALSE, rows |-> <<>>, rest |-> ""]

\* a string literal: s starts after the opening quote; '' is one quote
RECURSIVE SqlLiteral(_, _)
SqlLiteral(s, acc) ==
  IF Len(s) = 0 THEN [ok |-> FALSE, val |-> acc, rest |-> ""]
  ELSE IF Ch(s, 1) = "'"
    THEN IF Len(s) >= 2 /\ Ch(s, 2) = "'"
           THEN SqlLiteral(Drop(s, 2), acc \o "'")
           ELSE [ok |-> TRUE, val |-> acc, rest |-> Drop(s, 1)]
    ELSE SqlLiteral(Drop(s, 1), acc \o Ch(s, 1))

\* the terms of one tuple: s starts after "(" or after a ","
RECURSIVE SqlTuple(_, _)
SqlTuple(s, acc) ==
  LET t == TrimLeft(s) IN
  IF Len(t) = 0 \/ Ch(t, 1) # "'" THEN [ok |-> FALSE, row |-> acc, rest |-> ""]
  ELSE LET lit == SqlLiteral(Drop(t, 1), "")
           u   == TrimLeft(lit.rest)
       IN IF ~lit.ok \/ Len(u) = 0 THEN [ok |-> FALSE, row |-> acc, rest |-> ""]
          ELSE IF Ch(u, 1) = "," THEN SqlTuple(Drop(u, 1), Append(acc, lit.val))
          ELSE IF Ch(u, 1) = ")"
            THEN [ok |-> TRUE, row |-> Append(acc, lit.val), rest |-> Drop(u, 1)]
          ELSE [ok |-> FALSE, row |-> acc, rest |-> ""]

\* the tuples of the values list
RECURSIVE SqlValues(_, _)
SqlValues(s, acc) ==
  LET t == TrimLeft(s) IN
  IF Len(t) = 0 \/ Ch(t, 1) # "(" THEN SqlError
  ELSE LET tup == SqlTuple(Drop(t, 1), <<>>)
           u   == TrimLeft(tup.rest)
       IN IF ~tup.ok THEN SqlError
          ELSE IF Len(u) = 0 THEN [ok |-> TRUE, rows |-> Append(acc, tup.row), rest |-> ""]
          ELSE IF Ch(u, 1) = "," THEN SqlValues(Drop(u, 1), Append(acc, tup.row))
          ELSE SqlError

\* db.Exec("insert into T (header) values " + text + ";"): the rows it inserts
ExecInsert(n, text) ==
  LET p == SqlValues(text, <<>>) IN
  IF p.ok /\ \A i \in 1..Len(p.rows) : Len(p.rows[i]) = n THEN p ELSE SqlError


(***************************************************************************)
(* Resource names (isGTFS) and the table a resource is imported into.      *)
(***************************************************************************)
\* the switch of isGTFS: the cases that reach "required = true" ...
RequiredCases == {"agency.txt", "stops.txt", "routes.txt", "trips.txt",
                  "stop_times.txt", "calendar.txt"}

\* ... and the cases that only reach "valid = true"
OptionalCases == {"calendar_dates.txt", "fare_attributes.txt", "fare_rules.txt",
                  "shapes.txt", "frequencies.txt", "transfers.txt", "feed_info.tx"}

isGTFS(name) ==
  [valid    |-> name \in RequiredCases \cup OptionalCases,
   required |-> name \in RequiredCases]

\* tablename := f.Name[:len(f.Name)-4]
TableOf(name) == SubSeq(name, 1, Len(name) - 4)

\* the thirteen resource kinds of the feed format
RecognizedKinds == {"agency", "stops", "routes", "trips", "stop_times", "calendar",
                    "calendar_dates", "fare_attributes", "fare_rules", "shapes",
                    "frequencies", "transfers", "feed_info"}

\* names a resource of an input archive can have
InputNames == {k \o ".txt" : k \in RecognizedKinds} \cup {"feed_info.tx", "notes.txt"}

(***************************************************************************)
(* The store: tables, their indexes, and gtfs_metadata.                    *)
(***************************************************************************)
\* a store: its tables by name (a table is [cols, rows, idx]), whether it has
\* the table gtfs_metadata, the rows of gtfs_metadata, whether it has the
\* spatialite tables geometry_columns and spatial_ref_sys, and the geometry
\* columns registered in geometry_columns as <<table, column>>
EmptyDB == [tables |-> [t \in {} |-> 0], hasMeta |-> FALSE, meta |-> <<>>,
            geoMeta |-> FALSE, geo |-> {}]

NewTable(header) == [cols |-> header, rows |-> <<>>, idx |-> {}]

\* hasDBTable(db, name)
hasDBTable(db, name) ==
  IF name = "gtfs_metadata" THEN db.hasMeta ELSE name \in DOMAIN db.tables

\* the store after a statement has made table t be rec
PutTable(db, t, rec) ==
  [db EXCEPT !.tables = [x \in DOMAIN @ \cup {t} |-> IF x = t THEN rec ELSE @[x]]]

\* the store after "drop table if exists t"
DropTable(db, t) ==
  [db EXCEPT !.tables = [x \in DOMAIN @ \ {t} |-> @[x]]]

\* countImported that finds no row
countImportedNone(db, t) == 0

\* countDBTable(db, "*", "gtfs_metadata where tablename = '<tablename>'")
countImported(db, t) ==
  Cardinality({i \in 1..Len(db.meta) : db.meta[i].tablename = t})

\* the index statements of importGTFS, in the order of the statement text
IndexPlan(tablename) ==
  CASE tablename = "routes" ->
         << [name |-> "route_idx", unique |-> TRUE, cols |-> <<"route_id">>] >>
    [] tablename = "shapes" ->
         << [name |-> "shape_idx", unique |-> FALSE, cols |-> <<"shape_id">>] >>
    [] tablename = "stop_times" ->
         << [name |-> "st_trip_idx", unique |-> FALSE, cols |-> <<"trip_id">>],
            [name |-> "st_stop_idx", unique |-> FALSE, cols |-> <<"stop_id">>],
            [name |-> "stop_times_idx", unique |-> FALSE, cols |-> <<"trip_id", "stop_id">>] >>
    [] tablename = "stops" ->
         << [name |-> "stop_idx", unique |-> TRUE, cols |-> <<"stop_id">>] >>
    [] tablename = "transfers" ->
         << [name |-> "trans_from_idx", unique |-> FALSE, cols |-> <<"from_stop_id">>],
            [name |-> "trans_to_idx", unique |-> FALSE, cols |-> <<"to_stop_id">>],
            [name |-> "trans_idx", unique |-> FALSE, cols |-> <<"from_stop_id", "to_stop_id">>] >>
    [] tablename = "trips" ->
         << [name |-> "trip_idx", unique |-> TRUE, cols |-> <<"trip_id">>],
            [name |-> "t_shape_idx", unique |-> FALSE, cols |-> <<"shape_id">>],
            [name |-> "route_dir_idx", unique |-> FALSE, cols |-> <<"route_id", "direction_id">>] >>
    [] OTHER -> <<>>

Range(f) == {f[i] : i \in DOMAIN f}

ColIndex(cols, c) == CHOOSE i \in 1..Len(cols) : cols[i] = c

\* the key of a row under an index
IndexKey(table, ix, r) == [j \in 1..Len(ix.cols) |-> table.rows[r][ColIndex(table.cols, ix.cols[j])]]

\* IndexAccepted without the uniqueness of a unique index
IndexAcceptedAnyKeys(table, ix) == Range(ix.cols) \subseteq Range(table.cols)

\* "create [unique] index": its columns exist and, if unique, no key occurs twice
IndexAccepted(table, ix) ==
  /\ Range(ix.cols) \subseteq Range(table.cols)
  /\ ix.unique =>
       \A r1, r2 \in 1..Len(table.rows) :
         IndexKey(table, ix, r1) = IndexKey(table, ix, r2) => r1 = r2

\* db.Exec(iStmt): the statements run one after the other up to the first that
\* fails; the indexes made before it stay
RECURSIVE ExecIndexes(_, _)
ExecIndexes(table, plan) ==
  IF plan = <<>> THEN [ok |-> TRUE, table |-> table]
  ELSE IF IndexAccepted(table, plan[1])
    THEN ExecIndexes([table EXCEPT !.idx = @ \cup {plan[1].name}], Tail(plan))
    ELSE [ok |-> FALSE, table |-> table]

(***************************************************************************)
(* Spatial derivation (spatialite.go): the statements of buildSpatialStops, *)
(* buildSpatialShapes and buildSpatialRoutes as functions on the store.     *)
(* A geometry is kept as its text, "SRID=<srid>;<WKT>".                     *)
(***************************************************************************)
\* the value sqlite gives where there is none
Null == "<null>"

\* the spatial reference identifier written in every statement
SRID == "4326"

\* table t of db has all the columns cs
HasCols(db, t, cs) == hasDBTable(db, t) /\ cs \subseteq Range(db.tables[t].cols)

\* the value of column c in row r of a table
Field(table, r, c) == table.rows[r][ColIndex(table.cols, c)]

\* a text that reads as a number
IsNumber(s) ==
  /\ Len(s) > 0
  /\ \A i \in 1..Len(s) : Ch(s, i) \in {"0", "1", "2", "3", "4", "5", "6", "7", "8", "9", ".", "-"}

\* geomfromtext(wkt, srid); it gives null for a text that is no geometry
GeomFromText(wkt, srid) == IF wkt = Null THEN Null ELSE "SRID=" \o srid \o ";" \o wkt

\* 'POINT('||x||' '||y||')' as geomfromtext reads it
PointText(x, y) ==
  IF IsNumber(x) /\ IsNumber(y) THEN "POINT(" \o x \o " " \o y \o ")" ELSE Null

\* 'LINESTRING(' || group_concat(x || ' ' || y) || ')' as geomfromtext reads
\* it: pts are the texts x || ' ' || y; a line has two points or more
LineText(pts, valid) ==
  IF valid /\ Len(pts) >= 2 THEN "LINESTRING(" \o Join(pts, ",") \o ")" ELSE Null

\* the distinct values of a sequence, in the order of their first occurrence
RECURSIVE Distinct(_)
Distinct(q) ==
  IF q = <<>> THEN <<>>
  ELSE LET front == Distinct(SubSeq(q, 1, Len(q) - 1)) IN
       IF q[Len(q)] \in Range(front) THEN front ELSE Append(front, q[Len(q)])

\* the positions of the rows of a table that have value v in column c, ascending
RECURSIVE RowsWith(_, _, _, _)
RowsWith(table, c, v, n) ==
  IF n = 0 THEN <<>>
  ELSE LET front == RowsWith(table, c, v, n - 1) IN
       IF Field(table, n, c) = v THEN Append(front, n) ELSE front

\* the positions 1..n put in the order their ranks p give
Ordered(p, n) ==
  [k \in 1..n |-> CHOOSE i \in 1..n : Cardinality({j \in 1..n : p[j] < p[i]}) = k - 1]

\* select stop_id, geomfromtext('POINT('||stop_lon||' '||stop_lat||')', 4326) from stops
StopsGeoRows(stops) ==
  [r \in 1..Len(stops.rows) |->
     << Field(stops, r, "stop_id"),
        GeomFromText(PointText(Field(stops, r, "stop_lon"), Field(stops, r, "stop_lat")), SRID) >>]

\* the same statement in the copy of buildSpatialStops that util.go keeps:
\* select stop_id, geomfromtext('POINT('||stop_lat||' '||stop_lon||')', 4326) from stops
StopsGeoRowsLatLon(stops) ==
  [r \in 1..Len(stops.rows) |->
     << Field(stops, r, "stop_id"),
        GeomFromText(PointText(Field(stops, r, "stop_lat"), Field(stops, r, "stop_lon")), SRID) >>]

\* the files of package gtfsconv that hold a buildSpatialStops
StopsCopies == {"spatialite.go", "util.go"}

\* the shape_id values of shapes, one of each
ShapeIds(shapes) == Distinct([r \in 1..Len(shapes.rows) |-> Field(shapes, r, "shape_id")])

\* select shape_id, geomfromtext('LINESTRING(' || group_concat(shape_pt_lon ||
\* ' ' || shape_pt_lat) || ')', 4326) from shapes group by shape_id: the
\* statement has no order by, so group_concat takes the rows of a group in an
\* order of sqlite's choosing, given here by the ranks p
ShapesGeoRows(shapes, p) ==
  LET ids == ShapeIds(shapes) IN
  [g \in 1..Len(ids) |->
     LET at  == RowsWith(shapes, "shape_id", ids[g], Len(shapes.rows))
         ord == Ordered(p, Len(at))
         pts == [k \in 1..Len(at) |->
                   Field(shapes, at[ord[k]], "shape_pt_lon") \o " " \o
                   Field(shapes, at[ord[k]], "shape_pt_lat")]
         ok  == \A k \in 1..Len(at) :
                  /\ IsNumber(Field(shapes, at[k], "shape_pt_lon"))
                  /\ IsNumber(Field(shapes, at[k], "shape_pt_lat"))
     IN << ids[g], GeomFromText(LineText(pts, ok), SRID) >>]

\* the text of a geometry without its "SRID=4326;"
Wkt(g) == Drop(g, Len("SRID=" \o SRID \o ";"))

\* st_union over the geometries gs, nulls left out; the functions spatialite
\* applies to it (linemerge, snap, st_linescutatnodes, castToMulti) are kept
\* as the name fn around the parts they work on
Collect(fn, gs) ==
  LET parts == SelectSeq(gs, LAMBDA g : g # Null) IN
  IF parts = <<>> THEN Null
  ELSE "SRID=" \o SRID \o ";" \o fn \o "(" \o
       Join([k \in 1..Len(parts) |-> Wkt(parts[k])], ",") \o ")"

\* the geometry of key v in column c of a derived table, null without a row
GeomOf(table, c, v) ==
  LET at == RowsWith(table, c, v, Len(table.rows)) IN
  IF at = <<>> THEN Null ELSE Field(table, at[1], "geom")

\* select distinct route_id, direction_id from trips
RoutePairs(trips) ==
  Distinct([r \in 1..Len(trips.rows) |->
              << Field(trips, r, "route_id"), Field(trips, r, "direction_id") >>])

\* countDBTable(db, "distinct(route_id||direction_id)", "trips")
CountRouteKeys(trips) ==
  Cardinality({ Field(trips, r, "route_id") \o Field(trips, r, "direction_id") :
                r \in 1..Len(trips.rows) })

\* the row "insert into routes_geo ... select '<rid>', '<did>', ..." makes for
\* one route and direction: the shapes of its trips, the stops of its trips,
\* and the shapes cut at the stops
RouteGeoRow(db, rid, did) ==
  LET trips  == db.tables["trips"]
      times  == db.tables["stop_times"]
      mine   == SelectSeq([r \in 1..Len(trips.rows) |-> r],
                          LAMBDA r : /\ Field(trips, r, "route_id") = rid
                                     /\ Field(trips, r, "direction_id") = did)
      shapes == Distinct([k \in 1..Len(mine) |-> Field(trips, mine[k], "shape_id")])
      tids   == {Field(trips, mine[k], "trip_id") : k \in 1..Len(mine)}
      calls  == SelectSeq([r \in 1..Len(times.rows) |-> r],
                          LAMBDA r : Field(times, r, "trip_id") \in tids)
      stops  == Distinct([k \in 1..Len(calls) |-> Field(times, calls[k], "stop_id")])
      geom   == Collect("MULTILINESTRING",
                  [k \in 1..Len(shapes) |-> GeomOf(db.tables["shapes_geo"], "shape_id", shapes[k])])
      stopg  == Collect("MULTIPOINT",
                  [k \in 1..Len(stops) |-> GeomOf(db.tables["stops_geo"], "stop_id", stops[k])])
  IN << rid, did, geom, stopg,
        IF geom = Null \/ stopg = Null THEN Null ELSE Collect("CUT", <<geom, stopg>>) >>

\* a text that breaks out of the quotes the statement puts around it
HasQuote(s) == \E i \in 1..Len(s) : Ch(s, i) = "'"

\* a drop that leaves the geometry columns of t registered
DiscardedNothing(db, t) == db

\* DiscardGeometryColumn(t, c) for every geometry column of t
Discarded(db, t) == [db EXCEPT !.geo = {g \in @ : g[1] # t}]

\* AddGeometryColumn(t, c, 4326, type) for the columns cs: the columns are
\* added to the table and registered
WithGeometry(db, t, cs) ==
  [db EXCEPT !.geo = @ \cup {<<t, cs[k]>> : k \in 1..Len(cs)},
             !.tables[t].cols = @ \o cs]

\* the insert statements of a build, one per element of batches, which gives
\* the rows of the statement and whether sqlite refuses it (bad); a statement
\* is [msg, db, bad]: the error it is reported with and the store after it
RECURSIVE InsertSteps(_, _, _)
InsertSteps(db, t, batches) ==
  IF batches = <<>> THEN <<>>
  ELSE LET d == IF batches[1].bad THEN db
                ELSE [db EXCEPT !.tables[t].rows = @ \o batches[1].rows] IN
       << [msg |-> "failed to insert rows", db |-> d, bad |-> batches[1].bad] >>
         \o InsertSteps(d, t, Tail(batches))

\* the first statement of steps that fails: for the input (bad), or for a
\* reason outside the program when it is statement failAt; 0 if none fails
FirstFailure(steps, failAt) ==
  LET failing == {k \in 1..Len(steps) : steps[k].bad \/ k = failAt} IN
  IF failing = {} THEN 0 ELSE CHOOSE k \in failing : \A j \in failing : k <= j

\* what a build function returns, and the store it leaves, when it runs the
\* statements steps on db: the statements before the first failure have acted
Outcome(db, steps, failAt) ==
  LET k == FirstFailure(steps, failAt) IN
  IF k = 0 THEN [ok |-> TRUE, msg |-> "", cause |-> "",
                 db |-> IF steps = <<>> THEN db ELSE steps[Len(steps)].db]
  ELSE [ok |-> FALSE, msg |-> steps[k].msg,
        cause |-> IF steps[k].bad THEN "input" ELSE "outside",
        db |-> IF k = 1 THEN db ELSE steps[k - 1].db]

\* plan is what differs between the three build functions: the
\* derived table (name), whether the count on the base table can be made
\* (baseOk), its result (expected), the columns of "create table" (cols) and
\* of AddGeometryColumn (geocols), whether the keys are first queried and
\* whether that query can be made (query, queryOk), the insert statements
\* (batches), the index statements (indexes).
\* a build function that returns what its statements gave
SanityUnchecked(built, plan) == built

\* the end of a build function: the derived table must have as many rows as
\* were counted at the start
SanityChecked(built, plan) ==
  IF built.ok /\ Len(built.db.tables[plan.name].rows) # plan.expected
    THEN [ok |-> FALSE, msg |-> "failed to sanity check rows", cause |-> "input",
          db |-> built.db]
    ELSE built

\* the counts at the start of a build function
CountSteps(db, plan) ==
  << [msg |-> "countDBTable()", db |-> db, bad |-> ~plan.baseOk] >> \o
  (IF hasDBTable(db, plan.name)
     THEN << [msg |-> "countDBTable()", db |-> db, bad |-> FALSE] >>
     ELSE <<>>)

\* a build function from its start to its return when it does not find the
\* derived table complete
Rebuild(db, plan, failAt) ==
  LET t      == plan.name
      exists == hasDBTable(db, t)
      counts == CountSteps(db, plan)
      d1     == Discarded(db, t)
      d2     == DropTable(d1, t)
      drops  == IF exists
                  THEN << [msg |-> "failed to drop prev table", db |-> d1, bad |-> FALSE],
                          [msg |-> "failed to drop prev table", db |-> d2, bad |-> FALSE] >>
                  ELSE <<>>
      d3     == PutTable(d2, t, NewTable(plan.cols))
      d4     == WithGeometry(d3, t, plan.geocols)
      makes  == << [msg |-> "failed to create table", db |-> d3, bad |-> FALSE],
                   [msg |-> "failed to create table", db |-> d4, bad |-> FALSE] >>
      query  == IF plan.query
                  THEN << [msg |-> "failed to query distinct trips", db |-> d4, bad |-> ~plan.queryOk] >>
                  ELSE <<>>
      ins    == InsertSteps(d4, t, plan.batches)
      d5     == IF ins = <<>> THEN d4 ELSE ins[Len(ins)].db
      ixs    == ExecIndexes(d5.tables[t], plan.indexes)
      d6     == PutTable(d5, t, ixs.table)
      ends   == << [msg |-> "failed add index(es)", db |-> d6, bad |-> ~ixs.ok],
                   [msg |-> "countDBTable()", db |-> d6, bad |-> FALSE] >>
      built  == Outcome(db, counts \o drops \o makes \o query \o ins \o ends, failAt)
  IN SanityChecked(built, plan)

\* a build function that rebuilds the derived table whatever it finds
BuildDerivedAnyway(db, plan, failAt) == Rebuild(db, plan, failAt)

\* a build function: it returns at once when the derived table is there with
\* the count of the base table
BuildDerived(db, plan, failAt) ==
  IF /\ plan.baseOk /\ failAt \notin 1..Len(CountSteps(db, plan))
     /\ hasDBTable(db, plan.name)
     /\ Len(db.tables[plan.name].rows) = plan.expected
    THEN [ok |-> TRUE, msg |-> "", cause |-> "", db |-> db]
    ELSE Rebuild(db, plan, failAt)

\* buildSpatialStops, as the file copy has it
StopsPlan(db, copy) ==
  LET can == HasCols(db, "stops", {"stop_id", "stop_lon", "stop_lat"}) IN
  [name     |-> "stops_geo",
   baseOk   |-> hasDBTable(db, "stops"),
   expected |-> IF hasDBTable(db, "stops") THEN Len(db.tables["stops"].rows) ELSE 0,
   cols     |-> <<"stop_id">>,
   geocols  |-> <<"geom">>,
   query    |-> FALSE,
   queryOk  |-> TRUE,
   batches  |-> << [rows |-> IF ~can THEN <<>>
                             ELSE IF copy = "util.go" THEN StopsGeoRowsLatLon(db.tables["stops"])
                             ELSE StopsGeoRows(db.tables["stops"]),
                    bad  |-> ~can] >>,
   indexes  |-> << [name |-> "stopgeo_idx", unique |-> TRUE, cols |-> <<"stop_id">>] >>]

\* buildSpatialShapes; p ranks the rows of a group for group_concat
ShapesPlan(db, p) ==
  LET cnt == HasCols(db, "shapes", {"shape_id"})
      can == HasCols(db, "shapes", {"shape_id", "shape_pt_lon", "shape_pt_lat"})
  IN
  [name     |-> "shapes_geo",
   baseOk   |-> cnt,
   expected |-> IF cnt THEN Len(ShapeIds(db.tables["shapes"])) ELSE 0,
   cols     |-> <<"shape_id">>,
   geocols  |-> <<"geom">>,
   query    |-> FALSE,
   queryOk  |-> TRUE,
   batches  |-> << [rows |-> IF can THEN ShapesGeoRows(db.tables["shapes"], p) ELSE <<>>,
                    bad  |-> ~can] >>,
   indexes  |-> << [name |-> "shapegeo_idx", unique |-> TRUE, cols |-> <<"shape_id">>] >>]

\* buildSpatialRoutes: one insert statement per route and direction
RoutesPlan(db) ==
  LET cnt   == HasCols(db, "trips", {"route_id", "direction_id"})
      can   == /\ HasCols(db, "trips", {"route_id", "direction_id", "shape_id", "trip_id"})
               /\ HasCols(db, "stop_times", {"trip_id", "stop_id"})
               /\ HasCols(db, "shapes_geo", {"shape_id", "geom"})
               /\ HasCols(db, "stops_geo", {"stop_id", "geom"})
      pairs == IF cnt THEN RoutePairs(db.tables["trips"]) ELSE <<>>
  IN
  [name     |-> "routes_geo",
   baseOk   |-> cnt,
   expected |-> IF cnt THEN CountRouteKeys(db.tables["trips"]) ELSE 0,
   cols     |-> <<"route_id", "direction_id">>,
   geocols  |-> <<"geom", "stopgeom", "pathgeom">>,
   query    |-> TRUE,
   queryOk  |-> cnt,
   batches  |-> [k \in 1..Len(pairs) |->
                   LET no == ~can \/ HasQuote(pairs[k][1]) \/ HasQuote(pairs[k][2]) IN
                   [rows |-> IF no THEN <<>> ELSE << RouteGeoRow(db, pairs[k][1], pairs[k][2]) >>,
                    bad  |-> no]],
   indexes  |-> << [name |-> "routegeo_idx", unique |-> FALSE, cols |-> <<"route_id">>],
                   [name |-> "routegeo_dir_idx", unique |-> TRUE,
                    cols |-> <<"route_id", "direction_id">>] >>]

(***************************************************************************)
(* Cleanup (cleanGTFS, getAgencies, cleanMTANYCT) as functions on the      *)
(* store.  Every statement is committed on its own: the rule opens no      *)
(* transaction.                                                            *)
(***************************************************************************)
UpperCase == "ABCDEFGHIJKLMNOPQRSTUVWXYZ"

LowerCase == "abcdefghijklmnopqrstuvwxyz"

\* strings.ToLower on one character
LowerOf(c) ==
  IF \E i \in 1..26 : Ch(UpperCase, i) = c
    THEN Ch(LowerCase, CHOOSE i \in 1..26 : Ch(UpperCase, i) = c)
    ELSE c

\* regexp "[^a-z]" replaced by "-", on one character
AlphaOf(c) == IF \E i \in 1..26 : Ch(LowerCase, i) = c THEN c ELSE "-"

\* the identity getAgencies makes of agency_id || ' ' || agency_name
AgencyKey(id, name) ==
  LET s == id \o " " \o name IN
  Join([i \in 1..Len(s) |-> AlphaOf(LowerOf(Ch(s, i)))], "")

getAgencies(db) ==
  LET agency == db.tables["agency"] IN
  [r \in 1..Len(agency.rows) |->
     AgencyKey(Field(agency, r, "agency_id"), Field(agency, r, "agency_name"))]

\* the one key of cleanAgencyGTFS
MTANYCT == "mta-nyct-mta-new-york-city-transit"

\* substr(s, from, n) of sqlite, from >= 1
Substr(s, from, n) ==
  IF from > Len(s) THEN ""
  ELSE SubSeq(s, from, IF from + n - 1 < Len(s) THEN from + n - 1 ELSE Len(s))

\* s like '%sub%', for texts of one case without the characters % and _
Contains(s, sub) ==
  \/ Len(sub) = 0
  \/ \E i \in 1..(Len(s) - Len(sub) + 1) : SubSeq(s, i, i + Len(sub) - 1) = sub

\* s like 'p%', for texts of one case without the characters % and _
StartsLike(s, p) == Len(p) = 0 \/ HasPrefix(s, p)

\* shape_id = '' or shape_id is null, for row r of trips
Defective(trips, r) == Field(trips, r, "shape_id") \in {"", Null}

\* count(*) from trips where shape_id = '' or shape_id is null
DefectCount(db) ==
  Cardinality({r \in 1..Len(db.tables["trips"].rows) : Defective(db.tables["trips"], r)})

\* select distinct substr(trip_id, 21,4) from trips where shape_id = '' or
\* shape_id is null
MissingShapes(trips) ==
  LET bad == SelectSeq([r \in 1..Len(trips.rows) |-> r], LAMBDA r : Defective(trips, r)) IN
  Distinct([k \in 1..Len(bad) |-> Substr(Field(trips, bad[k], "trip_id"), 21, 4)])

\* select shape_id from shapes where shape_id like 'shp%' group by shape_id
\* order by count(shape_id) desc: the shapes that come first in that order,
\* all with the same, largest number of rows
Longest(shapes, shp) ==
  LET ids   == ShapeIds(shapes)
      sim   == SelectSeq(ids, LAMBDA id : StartsLike(id, shp))
      n(id) == Len(RowsWith(shapes, "shape_id", id, Len(shapes.rows)))
  IN  SelectSeq(sim, LAMBDA id : \A k \in 1..Len(sim) : n(sim[k]) <= n(id))

\* Updated without "shape_id = '' or shape_id is null" in its where
UpdatedAnyRow(db, simShp, shp) ==
  LET trips == db.tables["trips"] IN
  [db EXCEPT !.tables["trips"].rows =
     [r \in 1..Len(trips.rows) |->
        IF Contains(Field(trips, r, "trip_id"), shp)
          THEN [trips.rows[r] EXCEPT ![ColIndex(trips.cols, "shape_id")] = simShp]
          ELSE trips.rows[r]]]

\* update trips set shape_id = 'simShp' where (shape_id = '' or shape_id is
\* null) and trip_id like '%shp%'
Updated(db, simShp, shp) ==
  LET trips == db.tables["trips"] IN
  [db EXCEPT !.tables["trips"].rows =
     [r \in 1..Len(trips.rows) |->
        IF Defective(trips, r) /\ Contains(Field(trips, r, "trip_id"), shp)
          THEN [trips.rows[r] EXCEPT ![ColIndex(trips.cols, "shape_id")] = simShp]
          ELSE trips.rows[r]]]

\* the answer to the query for the shapes like shp, empty when there is none
Similar(db, shp) ==
  IF HasCols(db, "shapes", {"shape_id"}) /\ ~HasQuote(shp)
    THEN Longest(db.tables["shapes"], shp) ELSE <<>>

\* limit 1: of shapes with equally many rows the query gives the first or the
\* last
SimShp(best, first) ==
  IF best = <<>> THEN "" ELSE IF first THEN best[1] ELSE best[Len(best)]

\* PatchPair with the loop going on to the next shape when the query gave no
\* row
PatchPairGoingOn(db, shp, simShp, none) ==
  << [msg |-> "failed to find similar shape", db |-> db, bad |-> FALSE],
     [msg |-> "failed to update with general shape",
      db  |-> IF none \/ HasQuote(simShp) THEN db ELSE Updated(db, simShp, shp),
      bad |-> ~none /\ HasQuote(simShp)] >>

\* the query and the update for one missing shape shp, the query giving simShp
\* (none: no row)
PatchPair(db, shp, simShp, none) ==
  << [msg |-> "failed to find similar shape", db |-> db, bad |-> none],
     [msg |-> "failed to update with general shape",
      db  |-> IF none \/ HasQuote(simShp) THEN db ELSE Updated(db, simShp, shp),
      bad |-> HasQuote(simShp)] >>

\* the loop over the missing shapes: a query and an update for each
RECURSIVE PatchSteps(_, _, _)
RECURSIVE PatchNext(_, _, _)
PatchNext(pair, shapes, first) == pair \o PatchSteps(pair[2].db, shapes, first)

PatchSteps(db, shapes, first) ==
  IF shapes = <<>> THEN <<>>
  ELSE PatchNext(PatchPair(db, shapes[1], SimShp(Similar(db, shapes[1]), first),
                           Similar(db, shapes[1]) = <<>>),
                 Tail(shapes), first)

\* update gtfs_metadata set cleaned = 1 where tablename = 'trips'
NotedClean(db) ==
  [db EXCEPT !.meta = [i \in 1..Len(@) |->
                         IF @[i].tablename = "trips" THEN [@[i] EXCEPT !.cleaned = "1"]
                         ELSE @[i]]]

\* the statements of cleanMTANYCT up to the loop's end: the count of the
\* defects, the query for the missing shapes, the loop
RuleSteps(db, first) ==
  << [msg |-> "countDBTable()", db |-> db, bad |-> ~HasCols(db, "trips", {"shape_id"})],
     [msg |-> "failed on query target", db |-> db,
      bad |-> ~HasCols(db, "trips", {"shape_id", "trip_id"})] >>
  \o PatchSteps(db, IF HasCols(db, "trips", {"shape_id", "trip_id"})
                      THEN MissingShapes(db.tables["trips"]) ELSE <<>>, first)

\* the final count added to the statements
Recounted(steps) ==
  Append(steps, [msg |-> "countDBTable()", db |-> steps[Len(steps)].db, bad |-> FALSE])

\* RuleReturn without the look at the final count
RuleReturnUnverified(work, d, noteFails) ==
  IF ~work.ok THEN work
  ELSE IF ~d.hasMeta \/ noteFails
    THEN [ok |-> FALSE, msg |-> "failed to note successful cleaning",
          cause |-> IF d.hasMeta THEN "outside" ELSE "input", db |-> d]
  ELSE [ok |-> TRUE, msg |-> "", cause |-> "", db |-> NotedClean(d)]

\* the end of cleanMTANYCT: work is what the statements gave, d the store
\* after them, noteFails whether the update of gtfs_metadata fails outside
RuleReturn(work, d, noteFails) ==
  IF ~work.ok THEN work
  ELSE IF DefectCount(d) > 0
    THEN [ok |-> FALSE, msg |-> "failed to fully patch shapes", cause |-> "input", db |-> d]
  ELSE IF ~d.hasMeta \/ noteFails
    THEN [ok |-> FALSE, msg |-> "failed to note successful cleaning",
          cause |-> IF d.hasMeta THEN "outside" ELSE "input", db |-> d]
  ELSE [ok |-> TRUE, msg |-> "", cause |-> "", db |-> NotedClean(d)]

RuleEnd(db, steps, failAt) ==
  RuleReturn(Outcome(db, steps, failAt), steps[Len(steps)].db, failAt = Len(steps) + 1)

\* cleanMTANYCT without the return for trips that miss no shape
cleanMTANYCTAlways(db, failAt, first) ==
  RuleEnd(db, Recounted(RuleSteps(db, first)), failAt)

\* cleanMTANYCT: what it returns and the store it leaves; statement failAt
\* fails for a reason outside the program
cleanMTANYCT(db, failAt, first) ==
  IF HasCols(db, "trips", {"shape_id"}) /\ failAt # 1 /\ DefectCount(db) = 0
    THEN [ok |-> TRUE, msg |-> "", cause |-> "", db |-> db]
    ELSE RuleEnd(db, Recounted(RuleSteps(db, first)), failAt)

\* the loop of cleanGTFS over the agencies: the rule of each agency that has
\* one, until one fails
RECURSIVE CleanEach(_, _, _, _)
RECURSIVE CleanRest(_, _, _, _)
CleanRest(res, agency, agencies, first) ==
  IF res.ok THEN CleanEach(res.db, agencies, 0, first)
  ELSE [res EXCEPT !.msg = agency \o ": " \o @]

CleanEach(db, agencies, failAt, first) ==
  IF agencies = <<>> THEN [ok |-> TRUE, msg |-> "", cause |-> "", db |-> db]
  ELSE IF agencies[1] # MTANYCT THEN CleanEach(db, Tail(agencies), failAt, first)
  ELSE CleanRest(cleanMTANYCT(db, failAt, first), agencies[1], Tail(agencies), first)

(***************************************************************************)
(* Inputs: the archives, batch sizes and options a behaviour starts from.  *)
(***************************************************************************)
\* csv records the data rows of a stops.txt are taken from, in this order:
\* a full row, a short row, a row with a repeated stop_id, blanks and a quote,
\* a field holding the marker "#!", a row longer than the header, a bad byte
AllRows == << <<"S1", "Main St">>,
              <<"S2">>,
              <<" S1 ", "it's ", "x">>,
              <<"S4#!),(#!S5">>,
              <<"S6", "a,b", "y">>,
              <<"S7", "@">> >>

RowPool == SubSeq(AllRows, 1, MaxRows)

\* the subsequences of a sequence, its order kept
RECURSIVE SubSeqs(_)
SubSeqs(q) ==
  IF q = <<>> THEN { <<>> }
  ELSE LET rest == SubSeqs(Tail(q)) IN rest \cup { <<Head(q)>> \o r : r \in rest }

\* a header for each table: the columns its index statements name
HeaderOf(tablename) ==
  CASE tablename = "routes"     -> <<"route_id", "route_type">>
    [] tablename = "shapes"     -> <<"shape_id", "shape_pt_sequence">>
    [] tablename = "stop_times" -> <<"trip_id", "stop_id">>
    [] tablename = "stops"      -> <<"stop_id", "stop_name">>
    [] tablename = "transfers"  -> <<"from_stop_id", "to_stop_id">>
    [] tablename = "trips"      -> <<"route_id", "trip_id", "direction_id", "shape_id">>
    [] tablename = "agency"     -> <<"agency_id", "agency_name">>
    [] OTHER                    -> <<tablename \o "_id", "note">>

\* one stops.txt with every choice of rows
RowArchives ==
  { << [name |-> "stops.txt", header |-> h, rows |-> r] >> :
      h \in { <<"stop_id">>, <<"stop_id", "stop_name">> }, r \in SubSeqs(RowPool) }

\* a row longer than the header, two rows whose fields hold the marker "#!" at
\* the end and at the start, a row with a bad byte
OddRows == << AllRows[5], <<"a#!">>, <<"#!b">>, AllRows[6] >>

\* one stops.txt of one column with every choice of the odd rows
OddArchives ==
  { << [name |-> "stops.txt", header |-> <<"stop_id">>, rows |-> r] >> : r \in SubSeqs(OddRows) }

SmallFile(n) == [name |-> n, header |-> HeaderOf(TableOf(n)), rows |-> << <<"1", "x">>, <<"2">> >>]

\* names that may occur next to each other in an archive of several resources
PairNames == {"stops.txt", "agency.txt", "notes.txt"}

RECURSIVE NameSeqs(_)
NameSeqs(k) ==
  IF k = 0 THEN { <<>> }
  ELSE LET shorter == NameSeqs(k - 1) IN
       shorter \cup { Append(q, n) : q \in {x \in shorter : Len(x) = k - 1}, n \in PairNames }

\* every name alone, and every sequence of up to MaxFiles of the PairNames
NameArchives ==
  { << SmallFile(n) >> : n \in InputNames } \cup
  { [i \in 1..Len(q) |-> SmallFile(q[i])] : q \in NameSeqs(MaxFiles) \ { <<>> } }

\* the characters of a field of the field-escaping inputs
Alphabet == {"a", "'", "\"", ",", "#", "!", " "}

RECURSIVE Strings(_)
Strings(k) ==
  IF k = 0 THEN {""}
  ELSE LET shorter == Strings(k - 1) IN
       shorter \cup { s \o c : s \in {x \in shorter : Len(x) = k - 1}, c \in Alphabet }

\* one agency.txt of one row that has the field in its second column
FieldArchives ==
  { << [name |-> "agency.txt", header |-> <<"agency_id", "agency_name">>,
        rows |-> << <<"1", f>> >>] >> : f \in Strings(MaxStr) }

\* the options of the inputs that are about the import: no cleanup, no spatial tables
ImportFlags == [KeepDB |-> FALSE, SkipClean |-> TRUE, Spatialite |-> FALSE, SkipExtras |-> FALSE]

AllFlags == [KeepDB : {FALSE}, SkipClean : BOOLEAN, Spatialite : BOOLEAN, SkipExtras : BOOLEAN]

NoFile == [exists |-> FALSE, db |-> EmptyDB]

\* an empty database file, as sqlite makes it on opening a new path
EmptyFile == [exists |-> TRUE, db |-> EmptyDB]

Idle == /\ pc = "idle" /\ fi = 0 /\ pos = 0 /\ runs = 0
        /\ mem = EmptyDB
        /\ stages = <<>> /\ opened = {} /\ stmts = <<>>
        /\ atStart = file
        /\ err = [stage |-> "", msg |-> "", cause |-> ""]

InitRows ==
  /\ gtfs \in RowArchives
  /\ csvReadRowsLimit \in 1..MaxBatch
  /\ file \in {NoFile, EmptyFile}
  /\ opt = ImportFlags
  /\ Idle

InitOdd ==
  /\ gtfs \in OddArchives
  /\ csvReadRowsLimit \in 1..MaxBatch
  /\ file = EmptyFile
  /\ opt = ImportFlags
  /\ Idle

InitNames ==
  /\ gtfs \in NameArchives
  /\ csvReadRowsLimit \in {1, MaxBatch}
  /\ file \in {NoFile, EmptyFile}
  /\ opt = ImportFlags
  /\ Idle

InitFlags ==
  /\ gtfs = << SmallFile("agency.txt"), SmallFile("stops.txt") >>
  /\ csvReadRowsLimit = MaxBatch
  /\ file \in {NoFile, EmptyFile}
  /\ opt \in AllFlags
  /\ Idle

InitFields ==
  /\ gtfs \in FieldArchives
  /\ csvReadRowsLimit = MaxBatch
  /\ file = NoFile
  /\ opt = [ImportFlags EXCEPT !.SkipExtras = TRUE]
  /\ Idle

\* feeds for the spatial tables: two stops; a shape of three points, written
\* in the order of shape_pt_sequence or not, or no shapes.txt; trips of two
\* (route_id, direction_id) pairs, whose concatenations differ or not; the
\* stops of the trips
GeoStops ==
  [name |-> "stops.txt", header |-> <<"stop_id", "stop_lat", "stop_lon">>,
   rows |-> << <<"S1", "40.1", "-73.9">>, <<"S2", "40.2", "-73.8">> >>]

GeoShapeHeader == <<"shape_id", "shape_pt_lat", "shape_pt_lon", "shape_pt_sequence">>

GeoShapes ==
  { [name |-> "shapes.txt", header |-> GeoShapeHeader, rows |-> r] :
      r \in { << <<"A1", "40.1", "-73.9", "1">>, <<"A1", "40.2", "-73.8", "2">>,
                 <<"A1", "40.3", "-73.7", "3">> >>,
              << <<"A1", "40.2", "-73.8", "2">>, <<"A1", "40.1", "-73.9", "1">>,
                 <<"A1", "40.3", "-73.7", "3">> >> } }

GeoTrips ==
  { [name |-> "trips.txt", header |-> <<"route_id", "trip_id", "direction_id", "shape_id">>,
     rows |-> r] :
      r \in { << <<"1", "T1", "0", "A1">>, <<"1", "T2", "1", "A1">> >>,
              << <<"1", "T1", "12", "A1">>, <<"11", "T2", "2", "A1">> >> } }

GeoStopTimes ==
  [name |-> "stop_times.txt", header |-> <<"trip_id", "stop_id">>,
   rows |-> << <<"T1", "S1">>, <<"T2", "S2">> >>]

GeoArchives ==
  { <<GeoStops>> }
    \cup { <<sh, GeoStopTimes, GeoStops, tr>> : sh \in GeoShapes, tr \in GeoTrips }

SpatialFlags == [KeepDB |-> FALSE, SkipClean |-> TRUE, Spatialite |-> TRUE, SkipExtras |-> TRUE]

InitGeo ==
  /\ gtfs \in GeoArchives
  /\ csvReadRowsLimit = MaxPts
  /\ file = NoFile
  /\ opt = SpatialFlags
  /\ Idle

\* feeds of the agency that has a cleanup rule: trips without shape_id whose
\* trip_id ends in the name of a shape or of none, a trip_id that holds the
\* first four characters of another trip's shape further to the left, a trip
\* that has its shape_id, a trip_id shorter than 21 characters; shapes with
\* those names and with names that share their first four characters, of
\* fewer or more points, and a shape without a name
CleanAgency ==
  [name |-> "agency.txt", header |-> <<"agency_id", "agency_name">>,
   rows |-> << <<"MTA NYCT", "MTA New York City Transit">> >>]

CleanShapes ==
  { [name |-> "shapes.txt", header |-> <<"shape_id", "shape_pt_sequence">>, rows |-> r] :
      r \in { << <<"R..S95R", "1">>, <<"R..S95R", "2">>, <<"R..N95R", "1">> >>,
              << <<"R..S95R", "1">>, <<"R..S12X", "1">>, <<"R..S12X", "2">> >>,
              << <<"R..S12X", "1">>, <<"R..S95R", "1">> >>,
              << <<"R..S95R", "1">>, <<"Q..N10R", "1">> >>,
              << <<"", "1">>, <<"", "2">>, <<"R..S95R", "1">> >> } }

CleanTrips ==
  { [name |-> "trips.txt", header |-> <<"route_id", "trip_id", "direction_id", "shape_id">>,
     rows |-> r] :
      r \in { << <<"R", "A20130803WKD_000800_R..S95R", "0", "">> >>,
              << <<"R", "A20130803WKD_000800_R..S95R", "0", "">>,
                 <<"Q", "A20130803WKD_000900_Q..N10R", "1", "">> >>,
              << <<"R", "A20130803WKD_000800_R..S95R", "0", "R..S95R">> >>,
              << <<"R", "A20130803WKD_000800_R..S95R", "0", "">>,
                 <<"Q", "R..S0130803WKD_0009_Q..N10R", "1", "">> >>,
              << <<"R", "A20130803WKD_000800_R..S40R", "0", "">>,
                 <<"R", "A20130803WKD_000900_R..S12X", "1", "R..N95R">> >>,
              << <<"R", "T1", "0", "">> >> } }

CleanArchives == { <<CleanAgency, sh, tr>> : sh \in CleanShapes, tr \in CleanTrips }

CleanFlags == [KeepDB |-> FALSE, SkipClean |-> FALSE, Spatialite |-> FALSE, SkipExtras |-> TRUE]

InitClean ==
  /\ gtfs \in CleanArchives
  /\ csvReadRowsLimit = MaxPts
  /\ file = EmptyFile
  /\ opt = CleanFlags
  /\ Idle

Init == InitRows \/ InitOdd \/ InitNames \/ InitFlags \/ InitFields \/ InitGeo \/ InitClean

(***************************************************************************)
(* Build, setupDB, importGTFS.  Every statement sent to the store, every   *)
(* read and every stage can fail for reasons outside the program (ok =     *)
(* FALSE, cause "outside"); the failures that the archive and the store    *)
(* content decide are computed (cause "input").                            *)
(***************************************************************************)
NoError == [stage |-> "", msg |-> "", cause |-> ""]

\* the store behind the handle db of setupDB
DB == IF opt.KeepDB THEN file.db ELSE mem

SetDB(d) ==
  IF opt.KeepDB THEN file' = [file EXCEPT !.db = d] /\ mem' = mem
                ELSE mem' = d /\ file' = file

F == gtfs[fi]

tablename == TableOf(F.name)

\* return fmt.Errorf(...): the run is over, and the ":memory:" store with it
Return(stage, msg, cause) ==
  /\ pc' = "failed"
  /\ err' = [stage |-> stage, msg |-> msg, cause |-> cause]
  /\ mem' = EmptyDB

\* an error return of importGTFS that has changed nothing
ImportError(msg, cause) ==
  /\ Return("importGTFS()", msg, cause)
  /\ UNCHANGED <<gtfs, csvReadRowsLimit, file, opt, fi, pos, runs, stages, opened, stmts, atStart>>

\* an error return of importGTFS after a statement left the store as t; only a
\* kept file shows the change
ImportErrorLeaving(msg, cause, t) ==
  /\ Return("importGTFS()", msg, cause)
  /\ file' = IF opt.KeepDB THEN [file EXCEPT !.db = t] ELSE file
  /\ UNCHANGED <<gtfs, csvReadRowsLimit, opt, fi, pos, runs, stages, opened, stmts, atStart>>

\* Build up to the end of prepare(): KeepDB is given up when there is no file,
\* and a file without KeepDB is an error
prepare(keepDB, ok) ==
  /\ pc \in {"idle", "done", "failed"}
  /\ runs < MaxRuns
  /\ runs' = runs + 1
  /\ opt' = [opt EXCEPT !.KeepDB = keepDB /\ file.exists]
  /\ IF ~ok THEN Return("prepare()", "could not create dir", "outside")
     ELSE IF file.exists /\ ~keepDB THEN Return("prepare()", "sqlite db already exists", "input")
     ELSE pc' = "getGTFS" /\ err' = NoError /\ mem' = EmptyDB
  /\ fi' = 0 /\ pos' = 0
  /\ stages' = <<"prepare">> /\ opened' = {} /\ stmts' = <<>> /\ atStart' = file
  /\ UNCHANGED <<gtfs, csvReadRowsLimit, file>>

getGTFS(ok) ==
  /\ pc = "getGTFS"
  /\ stages' = Append(stages, "getGTFS")
  /\ IF ok THEN pc' = "setupDB" /\ UNCHANGED <<mem, err>>
     ELSE Return("getGTFS()", "failed to read local file", "outside")
  /\ UNCHANGED <<gtfs, csvReadRowsLimit, file, opt, fi, pos, runs, opened, stmts, atStart>>

\* setupDB up to the call of setupFn: open ":memory:" or the kept file
setupDB(ok) ==
  /\ pc = "setupDB"
  /\ stages' = Append(stages, "setupDB")
  /\ IF ok THEN pc' = "importGTFS" /\ mem' = EmptyDB /\ err' = err
     ELSE Return("setupDB()", "sql.Open()", "outside")
  /\ UNCHANGED <<gtfs, csvReadRowsLimit, file, opt, fi, pos, runs, opened, stmts, atStart>>

\* importGTFS: ensure gtfs_metadata
ensureMetadata(ok) ==
  /\ pc = "importGTFS"
  /\ stages' = Append(stages, "importGTFS")
  /\ UNCHANGED <<gtfs, csvReadRowsLimit, opt, pos, runs, opened, stmts, atStart>>
  /\ IF hasDBTable(DB, "gtfs_metadata")
       THEN pc' = "file" /\ fi' = 1 /\ UNCHANGED <<file, mem, err>>
       ELSE IF ok
         THEN pc' = "file" /\ fi' = 1 /\ SetDB([DB EXCEPT !.hasMeta = TRUE]) /\ err' = err
         ELSE /\ Return("importGTFS()", "failed to create gtfs_metadata table", "outside")
              /\ fi' = fi /\ file' = file

\* for _, f := range gtfs.File: a name isGTFS does not accept is passed over
skipNotGTFS ==
  /\ pc = "file" /\ fi <= Len(gtfs)
  /\ ~isGTFS(F.name).valid
  /\ fi' = fi + 1
  /\ UNCHANGED <<gtfs, csvReadRowsLimit, file, mem, opt, pc, pos, runs,
                 stages, opened, stmts, atStart, err>>

\* the count of checkpoint rows: an error, a resource to skip, or one to import
checkImported(ok) ==
  /\ pc = "file" /\ fi <= Len(gtfs)
  /\ isGTFS(F.name).valid
  /\ IF ~ok THEN ImportError("countDBTable()", "outside")
     ELSE /\ IF countImported(DB, tablename) > 0
               THEN pc' = "file" /\ fi' = fi + 1
               ELSE pc' = "open" /\ fi' = fi
          /\ UNCHANGED <<gtfs, csvReadRowsLimit, file, mem, opt, pos, runs,
                         stages, opened, stmts, atStart, err>>

\* f.Open(), csv.NewReader, the header record and its trimming
openResource(ok) ==
  /\ pc = "open"
  /\ opened' = opened \cup {fi}
  /\ IF ok THEN pc' = "create" /\ UNCHANGED <<mem, err>>
     ELSE Return("importGTFS()", "failed to open/read file", "outside")
  /\ UNCHANGED <<gtfs, csvReadRowsLimit, file, opt, fi, pos, runs, stages, stmts, atStart>>

\* Recreated without the drop: a table that is there is kept as it is
RecreatedKeepingRows(db, t, header) ==
  IF hasDBTable(db, t) THEN db ELSE PutTable(db, t, NewTable(header))

\* the effect of "drop table if exists T; create table T (header text, ...);"
Recreated(db, t, header) == PutTable(DropTable(db, t), t, NewTable(header))

\* the create table statement: its text must be valid UTF-8; when the second
\* of its two statements fails, T stays dropped
createTable(ok, dropped) ==
  /\ pc = "create"
  /\ IF ~ValidString(Join(F.header, " text, ")) THEN ImportError("invalid utf8 in header", "input")
     ELSE IF ~ok
       THEN ImportErrorLeaving("failed create table", "outside",
                               IF dropped THEN DropTable(DB, tablename) ELSE DB)
       ELSE /\ SetDB(Recreated(DB, tablename, F.header))
            /\ pc' = "batch" /\ pos' = 0 /\ stmts' = <<>>
            /\ UNCHANGED <<gtfs, csvReadRowsLimit, opt, fi, runs, stages, opened, atStart, err>>

Min(a, b) == IF a <= b THEN a ELSE b

\* whether the inner loop meets io.EOF before it has read csvReadRowsLimit records
BatchEOF == Len(F.rows) - pos < csvReadRowsLimit

\* BatchRecords with the records read before EOF thrown away
BatchRecordsLosingTail ==
  IF BatchEOF THEN <<>> ELSE SubSeq(F.rows, pos + 1, Min(pos + csvReadRowsLimit, Len(F.rows)))

\* the records the inner loop leaves in values: csvReadRowsLimit of them, or at
\* EOF those read before it (values = values[:i])
BatchRecords == SubSeq(F.rows, pos + 1, Min(pos + csvReadRowsLimit, Len(F.rows)))

\* the records one pass of the inner loop takes from the reader: one cr.Read()
\* per slot of values, none after io.EOF
Consumed == Len(BatchRecords)

\* the source tree has the loop "for isEOF == false" twice: in importGTFS of
\* package gtfsconv, with the case handler for empty rows, and in importGTFS
\* of main.go, without it
LoopCopies == {"gtfsconv", "main.go"}

\* the insert statement without rows, "insert into T (cols) values ;", which
\* the store rejects
EmptyInsert ==
  /\ Return("importGTFS()", "failed to insert", "input")
  /\ stmts' = Append(stmts, 0)
  /\ UNCHANGED <<gtfs, csvReadRowsLimit, file, opt, fi, pos, runs, stages, opened, atStart>>

\* one pass of "for isEOF == false": read a batch, build and run its insert
insertBatch(readOk, ok, copy) ==
  /\ pc = "batch"
  /\ LET recs   == BatchRecords
         values == BatchValues(recs, Len(F.header))
         res    == ExecInsert(Len(F.header), CleanValuesStr(values))
     IN IF ~readOk THEN ImportError("failed to read file", "outside")
        ELSE IF \E i \in 1..Len(values) : ~ValidString(values[i])
          THEN ImportError("encountered invalid utf8 in row", "input")
        ELSE IF Len(values) = 0 /\ copy = "main.go" THEN EmptyInsert
        ELSE IF Len(values) = 0
          THEN /\ pc' = "index"
               /\ UNCHANGED <<gtfs, csvReadRowsLimit, file, mem, opt, fi, pos, runs,
                              stages, opened, stmts, atStart, err>>
        ELSE IF ~ok THEN ImportError("failed to insert", "outside")
        ELSE IF ~res.ok THEN ImportError("failed to insert", "input")
        ELSE /\ SetDB([DB EXCEPT !.tables[tablename].rows = @ \o res.rows])
             /\ pos' = pos + Consumed
             /\ stmts' = Append(stmts, Len(recs))
             /\ pc' = IF BatchEOF THEN "index" ELSE "batch"
             /\ UNCHANGED <<gtfs, csvReadRowsLimit, opt, fi, runs, stages, opened, atStart, err>>

\* "add indexes to table": nothing is sent for a table without a plan
addIndexes(ok) ==
  /\ pc = "index"
  /\ LET res == ExecIndexes(DB.tables[tablename], IndexPlan(tablename)) IN
     IF IndexPlan(tablename) = <<>>
       THEN /\ pc' = "checkpoint"
            /\ UNCHANGED <<gtfs, csvReadRowsLimit, file, mem, opt, fi, pos, runs,
                           stages, opened, stmts, atStart, err>>
     ELSE IF ~ok THEN ImportError("failed add index(es)", "outside")
     ELSE IF ~res.ok
       THEN ImportErrorLeaving("failed add index(es)", "input", PutTable(DB, tablename, res.table))
     ELSE /\ SetDB(PutTable(DB, tablename, res.table))
          /\ pc' = "checkpoint"
          /\ UNCHANGED <<gtfs, csvReadRowsLimit, opt, fi, pos, runs,
                         stages, opened, stmts, atStart, err>>

\* "indicate gtfs import success for this table"
writeCheckpoint(ok) ==
  /\ pc = "checkpoint"
  /\ IF ~ok THEN ImportError("failed to note successful import", "outside")
     ELSE /\ SetDB([DB EXCEPT !.meta = Append(@, [tablename |-> tablename, cleaned |-> "NULL"])])
          /\ pc' = "file" /\ fi' = fi + 1
          /\ UNCHANGED <<gtfs, csvReadRowsLimit, opt, pos, runs,
                         stages, opened, stmts, atStart, err>>

\* the stage after importGTFS, the one after cleanGTFS, the one after setupDB
AfterImport ==
  IF opt.SkipClean = FALSE THEN "cleanGTFS"
  ELSE IF opt.Spatialite THEN "buildSpatialite" ELSE "backup"

AfterClean == IF opt.Spatialite THEN "buildSpatialite" ELSE "backup"

AfterSetup == IF opt.SkipExtras = FALSE THEN "exportCSV" ELSE "done"

\* importGTFS returns nil after the last resource
importReturn ==
  /\ pc = "file" /\ fi > Len(gtfs)
  /\ pc' = AfterImport
  /\ UNCHANGED <<gtfs, csvReadRowsLimit, file, mem, opt, fi, pos, runs,
                 stages, opened, stmts, atStart, err>>

\* Stage with the error noted and the run going on
StageGoingOn(name, next, ok) ==
  /\ pc = name
  /\ stages' = Append(stages, name)
  /\ pc' = next
  /\ err' = IF ok THEN err ELSE [stage |-> name \o "()", msg |-> "", cause |-> "outside"]
  /\ UNCHANGED <<gtfs, csvReadRowsLimit, file, mem, opt, fi, pos, runs, opened, stmts, atStart>>

\* a stage of Build that this part of the model does not look into
Stage(name, next, ok) ==
  /\ pc = name
  /\ stages' = Append(stages, name)
  /\ IF ok THEN pc' = next /\ UNCHANGED <<mem, err>>
     ELSE Return(name \o "()", "", "outside")
  /\ UNCHANGED <<gtfs, csvReadRowsLimit, file, opt, fi, pos, runs, opened, stmts, atStart>>

\* the return of cleanGTFS after its rules gave res
CleanReturn(res) ==
  IF res.ok THEN SetDB(res.db) /\ pc' = AfterClean /\ err' = err
  ELSE /\ Return("cleanGTFS()", res.msg, res.cause)
       /\ file' = IF opt.KeepDB THEN [file EXCEPT !.db = res.db] ELSE file

\* cleanGTFS: getAgencies reads agency_id and agency_name of every agency
\* row (statement 1), then the rules run; statement failAt fails for a reason
\* outside the program, and only a kept file shows what a failed run did
cleanGTFS(failAt, first) ==
  /\ pc = "cleanGTFS"
  /\ stages' = Append(stages, "cleanGTFS")
  /\ IF ~HasCols(DB, "agency", {"agency_id", "agency_name"})
       THEN Return("cleanGTFS()", "failed to query for agencies", "input") /\ file' = file
     ELSE IF failAt = 1
       THEN Return("cleanGTFS()", "failed to query for agencies", "outside") /\ file' = file
     ELSE CleanReturn(CleanEach(DB, getAgencies(DB), IF failAt > 1 THEN failAt - 1 ELSE 0, first))
  /\ UNCHANGED <<gtfs, csvReadRowsLimit, opt, fi, pos, runs, opened, stmts, atStart>>

\* SpatialError with the statements written to the target file whatever
\* KeepDB says
SpatialErrorWriting(msg, cause, d) ==
  /\ Return("buildSpatialite()", msg, cause)
  /\ file' = [exists |-> TRUE, db |-> d]

\* an error return of buildSpatialite after its statements left the store as
\* d; only a kept file shows them
SpatialError(msg, cause, d) ==
  /\ Return("buildSpatialite()", msg, cause)
  /\ file' = IF opt.KeepDB THEN [file EXCEPT !.db = d] ELSE file

\* a buildSpatialite that calls the next build function whatever the one
\* before returned
SpatialStepGoingOn(fn, res, next) ==
  /\ SetDB(res.db) /\ pc' = next /\ err' = err
  /\ UNCHANGED <<gtfs, csvReadRowsLimit, opt, fi, pos, runs, stages, opened, stmts, atStart>>

\* the end of one of the build functions: on to the next, or out with its error
SpatialStep(fn, res, next) ==
  /\ IF res.ok THEN SetDB(res.db) /\ pc' = next /\ err' = err
     ELSE SpatialError(fn \o "() " \o res.msg, res.cause, res.db)
  /\ UNCHANGED <<gtfs, csvReadRowsLimit, opt, fi, pos, runs, stages, opened, stmts, atStart>>

\* a buildSpatialite that leaves the derivation out when the extension is
\* not there
buildSpatialiteSkipping(loaded, ok) ==
  /\ pc = "buildSpatialite"
  /\ stages' = Append(stages, "buildSpatialite")
  /\ pc' = IF loaded /\ DB.geoMeta THEN "buildSpatialStops" ELSE "backup"
  /\ UNCHANGED <<gtfs, csvReadRowsLimit, file, mem, opt, fi, pos, runs, opened, stmts,
                 atStart, err>>

\* buildSpatialite up to the first build function: hasDBSpatialite (loaded
\* says whether the extension is there) and InitSpatialMetaData
buildSpatialite(loaded, ok) ==
  /\ pc = "buildSpatialite"
  /\ stages' = Append(stages, "buildSpatialite")
  /\ IF ~loaded THEN SpatialError("spatialite is not loaded", "outside", DB)
     ELSE IF DB.geoMeta THEN pc' = "buildSpatialStops" /\ UNCHANGED <<file, mem, err>>
     ELSE IF ~ok THEN SpatialError("failed to call InitSpatialMetaData()", "outside", DB)
     ELSE /\ SetDB([DB EXCEPT !.geoMeta = TRUE, !.geo = {}])
          /\ pc' = "buildSpatialStops" /\ err' = err
  /\ UNCHANGED <<gtfs, csvReadRowsLimit, opt, fi, pos, runs, opened, stmts, atStart>>

\* buildSpatialStops, and the test for "shapes" that follows it
buildSpatialStops(failAt, copy) ==
  /\ pc = "buildSpatialStops"
  /\ SpatialStep("buildSpatialStops", BuildDerived(DB, StopsPlan(DB, copy), failAt),
                 IF hasDBTable(DB, "shapes") THEN "buildSpatialShapes" ELSE "backup")

buildSpatialShapes(failAt, p) ==
  /\ pc = "buildSpatialShapes"
  /\ SpatialStep("buildSpatialShapes", BuildDerived(DB, ShapesPlan(DB, p), failAt),
                 "buildSpatialRoutes")

buildSpatialRoutes(failAt) ==
  /\ pc = "buildSpatialRoutes"
  /\ SpatialStep("buildSpatialRoutes", BuildDerived(DB, RoutesPlan(DB), failAt), "backup")

\* the derived tables, and what each is built from
DerivedTables == {"stops_geo", "shapes_geo", "routes_geo"}

DerivedPlan(db, t) ==
  CASE t = "stops_geo"  -> StopsPlan(db, "spatialite.go")
    [] t = "shapes_geo" -> ShapesPlan(db, [i \in 1..MaxPts |-> i])
    [] t = "routes_geo" -> RoutesPlan(db)

\* someone else writes to the target file between two runs, once: a derived
\* table loses its last row or gets a row, when every derived table has the
\* row count of its base table
perturb(t, more) ==
  /\ pc \in {"done", "failed"} /\ runs < MaxRuns
  /\ file.exists /\ hasDBTable(file.db, t)
  /\ \A u \in DerivedTables :
       hasDBTable(file.db, u) =>
         /\ DerivedPlan(file.db, u).baseOk
         /\ Len(file.db.tables[u].rows) = DerivedPlan(file.db, u).expected
  /\ more \/ Len(file.db.tables[t].rows) > 0
  /\ file' = [file EXCEPT !.db.tables[t].rows =
                 IF more THEN Append(@, [k \in 1..Len(file.db.tables[t].cols) |-> "X"])
                 ELSE SubSeq(@, 1, Len(@) - 1)]
  /\ UNCHANGED <<gtfs, csvReadRowsLimit, mem, opt, pc, fi, pos, runs, stages,
                 opened, stmts, atStart, err>>

\* setupDB after setupFn: without KeepDB the ":memory:" store is copied into the
\* target file, which opening it for the copy creates
backup(ok) ==
  /\ pc = "backup"
  /\ stages' = Append(stages, "backup")
  /\ IF opt.KeepDB THEN pc' = AfterSetup /\ UNCHANGED <<file, mem, err>>
     ELSE IF ok THEN pc' = AfterSetup /\ file' = [exists |-> TRUE, db |-> mem] /\ UNCHANGED <<mem, err>>
     ELSE Return("setupDB()", "dbconn.Backup()", "outside") /\ file' \in {file, EmptyFile}
  /\ UNCHANGED <<gtfs, csvReadRowsLimit, opt, fi, pos, runs, opened, stmts, atStart>>

exportCSV(ok) == Stage("exportCSV", "exportJSON", ok)

exportJSON(ok) == Stage("exportJSON", "exportGeoJSON", ok)

exportGeoJSON(ok) == Stage("exportGeoJSON", "done", ok)

Next ==
  \/ \E keepDB, ok \in BOOLEAN : prepare(keepDB, ok)
  \/ \E ok \in BOOLEAN : getGTFS(ok)
  \/ \E ok \in BOOLEAN : setupDB(ok)
  \/ \E ok \in BOOLEAN : ensureMetadata(ok)
  \/ skipNotGTFS
  \/ \E ok \in BOOLEAN : checkImported(ok)
  \/ \E ok \in BOOLEAN : openResource(ok)
  \/ \E ok, dropped \in BOOLEAN : createTable(ok, dropped)
  \/ \E readOk, ok \in BOOLEAN, copy \in LoopCopies : insertBatch(readOk, ok, copy)
  \/ \E ok \in BOOLEAN : addIndexes(ok)
  \/ \E ok \in BOOLEAN : writeCheckpoint(ok)
  \/ importReturn
  \/ \E failAt \in 0..FailPoints, first \in BOOLEAN : cleanGTFS(failAt, first)
  \/ \E loaded, ok \in BOOLEAN : buildSpatialite(loaded, ok)
  \/ \E failAt \in 0..FailPoints, copy \in StopsCopies : buildSpatialStops(failAt, copy)
  \/ \E failAt \in 0..FailPoints, p \in Permutations(1..MaxPts) : buildSpatialShapes(failAt, p)
  \/ \E failAt \in 0..FailPoints : buildSpatialRoutes(failAt)
  \/ \E ok \in BOOLEAN : backup(ok)
  \/ \E ok \in BOOLEAN : exportCSV(ok)
  \/ \E ok \in BOOLEAN : exportJSON(ok)
  \/ \E ok \in BOOLEAN : exportGeoJSON(ok)
  \/ \E t \in DerivedTables, more \in BOOLEAN : perturb(t, more)

Spec == Init /\ [][Next]_vars

(***************************************************************************)
(* Vocabulary of the properties.                                           *)
(***************************************************************************)
\* importGTFS has returned nil in the run in progress
ImportSucceeded ==
  pc \in {"cleanGTFS", "buildSpatialite", "buildSpatialStops", "buildSpatialShapes",
          "buildSpatialRoutes", "backup", "exportCSV", "exportJSON", "exportGeoJSON", "done"}

\* importGTFS has returned nil in the run in progress and cleanGTFS has not
\* yet worked on what it left
ImportJustDone == ImportSucceeded /\ "cleanGTFS" \notin Range(stages)

\* the table a specification reader expects for the records recs under a header
\* of n columns: one row per record, fields by position, blanks trimmed, short
\* records filled with empty strings, longer records cut
ExpectedRows(recs, n) ==
  [k \in 1..Len(recs) |->
     [j \in 1..n |-> IF j <= Len(recs[k]) THEN TrimSpace(recs[k][j]) ELSE ""]]

\* the resource of the archive that table t is imported from
ResourceOf(t) ==
  gtfs[CHOOSE i \in 1..Len(gtfs) :
         /\ isGTFS(gtfs[i].name).valid /\ TableOf(gtfs[i].name) = t
         /\ \A j \in 1..(i - 1) : TableOf(gtfs[j].name) # t]

\* the tables the archive has a resource for
ArchiveTables == {TableOf(gtfs[i].name) : i \in {j \in 1..Len(gtfs) : isGTFS(gtfs[j].name).valid}}

\* C1 (as claimed): after a successful importGTFS every resource it imported
\* has left a table of exactly m rows in input order, a row of n fields keeping
\* its values by position and a shorter row being filled with empty strings.
C1_RowsPreserved ==
  ImportJustDone =>
    \A i \in opened :
      LET f == gtfs[i]
          n == Len(f.header)
          t == DB.tables[TableOf(f.name)]
      IN /\ Len(t.rows) = Len(f.rows)
         /\ \A k \in 1..Len(f.rows) :
              Len(f.rows[k]) <= n => t.rows[k] = ExpectedRows(f.rows, n)[k]

\* C7 (as claimed): no insert statement is rejected by the store for what a
\* field holds, and after each batch the table holds, for the records read so
\* far, one row per record with the trimmed field values.
C7_FieldsEscaped ==
  /\ ~(err.msg = "failed to insert" /\ err.cause = "input")
  /\ (pc \in {"batch", "index", "checkpoint"} /\ Len(stmts) > 0) =>
       DB.tables[tablename].rows = ExpectedRows(SubSeq(F.rows, 1, pos), Len(F.header))

\* C8 (as claimed): a run that ends well has imported and checkpointed every
\* resource named <kind>.txt for a recognized kind, and has made no table and
\* no checkpoint for any other name.
C8_RecognizedNames ==
  pc = "done" =>
    \A i \in 1..Len(gtfs) :
      LET t == TableOf(gtfs[i].name) IN
      IF gtfs[i].name \in {k \o ".txt" : k \in RecognizedKinds}
        THEN hasDBTable(DB, t) /\ countImported(DB, t) = 1
        ELSE ~hasDBTable(DB, t) /\ countImported(DB, t) = 0


\* a checkpoint row for table t is in the metadata of d
Checkpointed(d, t) == \E i \in 1..Len(d.meta) : d.meta[i].tablename = t

\* the number of checkpoint rows for table t in d
Checkpoints(d, t) == Cardinality({i \in 1..Len(d.meta) : d.meta[i].tablename = t})

\* the rows resource f gives a table when all its records go in one statement,
\* whatever the batch size
WholeRows(f) ==
  IF f.rows = <<>> THEN <<>>
  ELSE ExecInsert(Len(f.header), CleanValuesStr(BatchValues(f.rows, Len(f.header)))).rows

\* the first k records of resource f
FirstRecords(f, k) == [f EXCEPT !.rows = SubSeq(f.rows, 1, k)]

\* rows are the rows old, but for what cleanup may have done since they were
\* imported: an empty shape_id of trips filled in
Repaired(rows, old, cols, t) ==
  /\ Len(rows) = Len(old)
  /\ \A r \in 1..Len(rows) :
       /\ Len(rows[r]) = Len(old[r])
       /\ \A c \in 1..Len(rows[r]) :
            \/ rows[r][c] = old[r][c]
            \/ t = "trips" /\ c <= Len(cols) /\ cols[c] = "shape_id" /\ old[r][c] = ""

\* table t of d holds every row of its resource
Complete(d, t) ==
  hasDBTable(d, t) /\ Repaired(d.tables[t].rows, WholeRows(ResourceOf(t)), d.tables[t].cols, t)

\* table t of d holds the rows of the first k records of its resource, k a
\* number of whole batches
WholeBatches(d, t) ==
  LET f == ResourceOf(t)
  IN  \E k \in 0..Len(f.rows) :
        /\ k % csvReadRowsLimit = 0 \/ k = Len(f.rows)
        /\ d.tables[t].rows = WholeRows(FirstRecords(f, k))

\* importGTFS has returned an error
ImportFailed == pc = "failed" /\ err.stage = "importGTFS()"

\* C2: a checkpoint row for table T is there only when T holds every data row
\* of its resource, in the working database and in the target file alike, and
\* only tables of the archive are checkpointed.
C2_CheckpointMeansComplete ==
  \A d \in {file.db, mem} :
    /\ \A i \in 1..Len(d.meta) : d.meta[i].tablename \in ArchiveTables
    /\ \A t \in ArchiveTables : Checkpointed(d, t) => Complete(d, t)

\* C2 witness: a later run has failed and the file still has the checkpoint of
\* a table that took more than one statement to fill
C2_Witness ==
  /\ pc = "failed" /\ runs = 2
  /\ \E t \in ArchiveTables :
       /\ Checkpointed(file.db, t)
       /\ Len(file.db.tables[t].rows) > csvReadRowsLimit

\* C3 (as claimed): after a failed importGTFS no table of the target holds only
\* some of the rows of its resource.
C3_NoPartialTable ==
  ImportFailed =>
    \A t \in ArchiveTables :
      hasDBTable(file.db, t) =>
        ~(/\ 0 < Len(file.db.tables[t].rows)
          /\ Len(file.db.tables[t].rows) < Len(WholeRows(ResourceOf(t))))

\* C3 (amended): after a failed importGTFS a table of the target is either
\* checkpointed and complete, or without checkpoint, and then absent or holding
\* the rows of a number of whole batches from the start of its resource; a run
\* without KeepDB leaves the target file as it was.
C3_FailedImportLeaves ==
  ImportFailed =>
    /\ ~opt.KeepDB => file = atStart
    /\ \A t \in ArchiveTables :
         IF Checkpointed(file.db, t) THEN Complete(file.db, t)
         ELSE hasDBTable(file.db, t) => WholeBatches(file.db, t)

\* C3 witness: importGTFS has failed and left a table with some but not all of
\* the rows and no checkpoint
C3_Witness ==
  /\ ImportFailed
  /\ \E t \in ArchiveTables :
       /\ hasDBTable(file.db, t) /\ ~Checkpointed(file.db, t)
       /\ 0 < Len(file.db.tables[t].rows)
       /\ Len(file.db.tables[t].rows) < Len(WholeRows(ResourceOf(t)))


\* the tables the target file held when the run began
StartTables == DOMAIN atStart.db.tables

\* C4: a table that had a checkpoint row when the run began is skipped: its
\* resource is never opened, and in the target file the table and the number of
\* its checkpoint rows stay as they were (until cleanup, which may fill in the
\* empty shape_id of trips).
C4_CheckpointedSkipped ==
  \A t \in ArchiveTables \cup StartTables :
    Checkpointed(atStart.db, t) =>
      /\ \A i \in opened : TableOf(gtfs[i].name) # t
      /\ hasDBTable(file.db, t) /\ t \in StartTables
      /\ "cleanGTFS" \notin Range(stages) => file.db.tables[t] = atStart.db.tables[t]
      /\ file.db.tables[t].cols = atStart.db.tables[t].cols
      /\ file.db.tables[t].idx = atStart.db.tables[t].idx
      /\ Repaired(file.db.tables[t].rows, atStart.db.tables[t].rows, file.db.tables[t].cols, t)
      /\ Checkpoints(file.db, t) = Checkpoints(atStart.db, t)

\* C4 witness: a run over a file that had a checkpointed table has gone through
\* the whole archive and ended
C4_Witness ==
  /\ pc = "done" /\ opt.KeepDB
  /\ \E i \in 1..Len(gtfs) :
       /\ isGTFS(gtfs[i].name).valid
       /\ Checkpointed(atStart.db, TableOf(gtfs[i].name))
       /\ Len(gtfs[i].rows) > 0

\* C5 (as claimed): when a run began with table T holding part of its rows and
\* no checkpoint, and importGTFS has succeeded, T holds exactly the m rows of
\* its resource once each, in order, and one checkpoint row.
C5_RerunRecreates ==
  (ImportJustDone /\ opt.KeepDB) =>
    \A t \in ArchiveTables \cap StartTables :
      (/\ ~Checkpointed(atStart.db, t)
       /\ 0 < Len(atStart.db.tables[t].rows)
       /\ Len(atStart.db.tables[t].rows) < Len(ResourceOf(t).rows)) =>
        LET f == ResourceOf(t)
        IN  /\ hasDBTable(DB, t)
            /\ DB.tables[t].rows = ExpectedRows(f.rows, Len(f.header))
            /\ Checkpoints(DB, t) = 1

\* the statement carrying all the records of resource f is accepted
WholeAccepted(f) ==
  \/ f.rows = <<>>
  \/ ExecInsert(Len(f.header), CleanValuesStr(BatchValues(f.rows, Len(f.header)))).ok

\* C6 (as claimed): what the import of a resource leaves in its table does not
\* depend on csvReadRowsLimit: once the batches are committed the table holds
\* the rows that one statement with all the records gives, and a batch is
\* refused for its content only if that one statement is refused as well.
C6_BatchSizeIndependent ==
  /\ pc \in {"index", "checkpoint"} => DB.tables[tablename].rows = WholeRows(F)
  /\ (ImportFailed /\ err.msg = "failed to insert" /\ err.cause = "input") => ~WholeAccepted(F)

RECURSIVE Sum(_)
Sum(q) == IF q = <<>> THEN 0 ELSE q[1] + Sum(Tail(q))

\* the names of the indexes planned for table t
PlannedIndexes(t) == {IndexPlan(t)[i].name : i \in 1..Len(IndexPlan(t))}

\* no two rows of table agree on all the columns of a unique index planned for t
UniqueKeysHold(table, t) ==
  \A i \in 1..Len(IndexPlan(t)) :
    IndexPlan(t)[i].unique =>
      \A a, b \in 1..Len(table.rows) :
        (\A c \in Range(IndexPlan(t)[i].cols) :
           table.rows[a][ColIndex(table.cols, c)] = table.rows[b][ColIndex(table.cols, c)]) => a = b

\* C9: for each table the inserts come first, then the indexes, then the
\* checkpoint: index creation starts with every record of the resource sent,
\* the checkpoint is written with every planned index in place, a failed index
\* statement leaves the table without checkpoint, and a table without index
\* plan is checkpointed like the others.
C9_InsertIndexCheckpoint ==
  /\ pc \in {"index", "checkpoint"} =>
       /\ pos = Len(F.rows) /\ Sum(stmts) = Len(F.rows)
       /\ ~Checkpointed(DB, tablename)
  /\ pc = "index" => DB.tables[tablename].idx = {}
  /\ pc = "checkpoint" => DB.tables[tablename].idx = PlannedIndexes(tablename)
  /\ \A d \in {file.db, mem} : \A t \in DOMAIN d.tables :
       Checkpointed(d, t) =>
         /\ d.tables[t].idx = PlannedIndexes(t)
         /\ UniqueKeysHold(d.tables[t], t)
  /\ (ImportFailed /\ err.msg = "failed add index(es)") =>
       /\ ~Checkpointed(file.db, tablename)
       /\ PlannedIndexes(tablename) # {}
  /\ ImportSucceeded =>
       \A i \in 1..Len(gtfs) :
         isGTFS(gtfs[i].name).valid => Checkpoints(DB, TableOf(gtfs[i].name)) = 1

\* C9 witness: the unique index of a table was refused for a key that occurs
\* twice, after the rows were committed
C9_Witness ==
  /\ ImportFailed /\ err.msg = "failed add index(es)" /\ err.cause = "input"
  /\ opt.KeepDB /\ Len(file.db.tables[tablename].rows) >= 2

\* the stages Build runs for options o, in order
ExpectedStages(o) ==
  <<"prepare", "getGTFS", "setupDB", "importGTFS">>
    \o (IF o.SkipClean THEN <<>> ELSE <<"cleanGTFS">>)
    \o (IF o.Spatialite THEN <<"buildSpatialite">> ELSE <<>>)
    \o <<"backup">>
    \o (IF o.SkipExtras THEN <<>> ELSE <<"exportCSV", "exportJSON", "exportGeoJSON">>)

\* the name under which the error of a stage is reported
ReportedAs(stage) == IF stage = "backup" THEN "setupDB()" ELSE stage \o "()"

IsPrefix(p, q) == Len(p) <= Len(q) /\ p = SubSeq(q, 1, Len(p))

\* a step of a run that is under way
RunStep ==
  \E ok \in BOOLEAN :
    \/ getGTFS(ok) \/ setupDB(ok) \/ ensureMetadata(ok) \/ checkImported(ok)
    \/ openResource(ok) \/ addIndexes(ok) \/ writeCheckpoint(ok)
    \/ (\E failAt \in 0..FailPoints, first \in BOOLEAN : cleanGTFS(failAt, first))
    \/ (\E loaded \in BOOLEAN : buildSpatialite(loaded, ok))
    \/ (\E failAt \in 0..FailPoints :
          \/ (\E copy \in StopsCopies : buildSpatialStops(failAt, copy))
          \/ buildSpatialRoutes(failAt)
          \/ \E p \in Permutations(1..MaxPts) : buildSpatialShapes(failAt, p))
    \/ backup(ok) \/ exportCSV(ok) \/ exportJSON(ok)
    \/ exportGeoJSON(ok) \/ skipNotGTFS \/ importReturn
    \/ \E b \in BOOLEAN :
         createTable(ok, b) \/ \E copy \in LoopCopies : insertBatch(ok, b, copy)

\* C10: Build runs its stages in the one order import, cleanup (unless
\* SkipClean), spatial (if Spatialite), exports (unless SkipExtras); an error
\* ends the run at the stage that reported it, with nothing after it and
\* nothing tried again, and resources are taken in archive order.
C10_StagesInOrder ==
  /\ runs > 0 => IsPrefix(stages, ExpectedStages(opt))
  /\ pc = "done" => stages = ExpectedStages(opt)
  /\ (err # NoError) <=> (pc = "failed")
  /\ pc = "failed" =>
       /\ err.stage = ReportedAs(stages[Len(stages)])
       /\ ~ENABLED RunStep
  /\ \A i \in opened : i <= fi

\* C10 witness: cleanGTFS failed in a run that had spatial and exports asked for
C10_Witness ==
  /\ pc = "failed" /\ err.stage = "cleanGTFS()"
  /\ opt.Spatialite /\ ~opt.SkipExtras
  /\ stages = <<"prepare", "getGTFS", "setupDB", "importGTFS", "cleanGTFS">>

(***************************************************************************)
(* Spatial derivation: what the claims speak of.                          *)
(***************************************************************************)
\* the place of a run where the build function of derived table t starts
BuilderAt(t) ==
  CASE t = "stops_geo"  -> "buildSpatialStops"
    [] t = "shapes_geo" -> "buildSpatialShapes"
    [] t = "routes_geo" -> "buildSpatialRoutes"

\* the number of rows derived table t is expected to have in d, if its base
\* table can be counted
CanExpect(d, t) == DerivedPlan(d, t).baseOk

Expected(d, t) == DerivedPlan(d, t).expected

\* derived table t is in d with the row count expected from its base table
UpToDate(d, t) ==
  hasDBTable(d, t) /\ CanExpect(d, t) /\ Len(d.tables[t].rows) = Expected(d, t)

\* derived table t is in d with another row count than expected
Stale(d, t) ==
  hasDBTable(d, t) /\ CanExpect(d, t) /\ Len(d.tables[t].rows) # Expected(d, t)

\* C11: a build function that finds its derived table with the row count
\* expected from the base table changes nothing in the store (no drop, create,
\* insert or index statement), so a second derivation over unchanged base
\* tables leaves every derived table as the first one made it.
C11_FreshUntouched ==
  [][ \A t \in DerivedTables :
        (pc = BuilderAt(t) /\ UpToDate(DB, t)) =>
          /\ file' = file
          /\ pc' # "failed" => mem' = mem ]_vars

\* C11 witness: a second run over a kept file has ended well, every derived
\* table was there with its expected count when it started, and they are as
\* they were
C11_Witness ==
  /\ pc = "done" /\ runs = 2 /\ opt.KeepDB /\ opt.Spatialite
  /\ "buildSpatialite" \in Range(stages)
  /\ \A t \in DerivedTables :
       UpToDate(atStart.db, t) /\ file.db.tables[t] = atStart.db.tables[t]

\* the build functions derived table t can be built by in d, one for each
\* order group_concat may take
Plans(d, t) ==
  CASE t = "stops_geo"  -> {StopsPlan(d, copy) : copy \in StopsCopies}
    [] t = "shapes_geo" -> {ShapesPlan(d, p) : p \in Permutations(1..MaxPts)}
    [] t = "routes_geo" -> {RoutesPlan(d)}

\* the rows of all the insert statements of a build, in their order
RECURSIVE PlannedRows(_)
PlannedRows(batches) ==
  IF batches = <<>> THEN <<>> ELSE batches[1].rows \o PlannedRows(Tail(batches))

\* the geometry columns registered for table t in d
Registered(d, t) == {g[2] : g \in {h \in d.geo : h[1] = t}}

\* C12: a build function that finds its derived table with another row count
\* than expected rebuilds it in full.  When it succeeds the table holds the
\* rows selected from the base table and nothing else, with the expected
\* count and its geometry columns registered; when it fails the table is as
\* it was, or gone together with its registration, or holds rows selected
\* from the base table only.
C12_StaleRebuilt ==
  [][ \A t \in DerivedTables :
        (pc = BuilderAt(t) /\ Stale(DB, t)) =>
          IF pc' # "failed"
            THEN \E plan \in Plans(DB, t) :
                   /\ DB'.tables[t].rows = PlannedRows(plan.batches)
                   /\ DB'.tables[t].cols = plan.cols \o plan.geocols
                   /\ Len(DB'.tables[t].rows) = Expected(DB, t)
                   /\ Registered(DB', t) = Range(plan.geocols)
            ELSE IF hasDBTable(file'.db, t)
              THEN \/ file'.db.tables[t].rows = file.db.tables[t].rows
                   \/ \E plan \in Plans(DB, t) :
                        IsPrefix(file'.db.tables[t].rows, PlannedRows(plan.batches))
              ELSE Registered(file'.db, t) = {} ]_vars

\* C12 witness: a derived table of the kept file had lost or gained a row from
\* outside when the run started, and the run has ended well with the table at
\* its expected count
C12_Witness ==
  /\ pc = "done" /\ runs = 2 /\ opt.KeepDB
  /\ "buildSpatialite" \in Range(stages)
  /\ \E t \in DerivedTables :
       /\ Stale(atStart.db, t)
       /\ Len(atStart.db.tables[t].rows) > Expected(atStart.db, t)
       /\ UpToDate(file.db, t)

\* C13: a build function returns success only with its derived table holding
\* as many rows as it counted in the base table when it started; with another
\* count after the build it returns an error, which ends the run.
C13_SuccessMeansCount ==
  [][ \A t \in DerivedTables :
        (pc = BuilderAt(t) /\ pc' # "failed") =>
          /\ CanExpect(DB, t)
          /\ hasDBTable(DB', t)
          /\ Len(DB'.tables[t].rows) = Expected(DB, t) ]_vars

\* C13 witness: the sanity check of buildSpatialRoutes has ended a run, after
\* buildSpatialStops and buildSpatialShapes had returned well in it
C13_Witness ==
  /\ pc = "failed" /\ err.stage = "buildSpatialite()"
  /\ err.msg = "buildSpatialRoutes() failed to sanity check rows"
  /\ stages[Len(stages)] = "buildSpatialite"

\* C14 (as claimed): when a build function starts, the row count it expects
\* is the number of distinct keys of the base table: for routes_geo the number
\* of distinct (route_id, direction_id) pairs of trips, which is the number
\* of its insert statements; for stops_geo the number of distinct stop_id.
C14_ExpectedIsDistinctKeys ==
  /\ (pc = "buildSpatialRoutes" /\ CanExpect(DB, "routes_geo")) =>
       /\ Expected(DB, "routes_geo") = Len(RoutePairs(DB.tables["trips"]))
       /\ Expected(DB, "routes_geo") = Len(RoutesPlan(DB).batches)
  /\ (pc = "buildSpatialStops" /\ HasCols(DB, "stops", {"stop_id"})) =>
       Expected(DB, "stops_geo") =
         Cardinality({Field(DB.tables["stops"], r, "stop_id") :
                        r \in 1..Len(DB.tables["stops"].rows)})

\* the text geomfromtext is given for a line through the rows at of shapes,
\* longitude before latitude
LonLatLine(shapes, at) ==
  "SRID=4326;LINESTRING(" \o
    Join([k \in 1..Len(at) |-> Field(shapes, at[k], "shape_pt_lon") \o " " \o
                                 Field(shapes, at[k], "shape_pt_lat")], ",") \o ")"

\* the rows of the group of shape id, in every order
Orders(shapes, id) ==
  LET at == RowsWith(shapes, "shape_id", id, Len(shapes.rows)) IN
  { [k \in 1..Len(at) |-> at[q[k]]] : q \in Permutations(1..Len(at)) }

\* C15 (as claimed): when buildSpatialite has returned well, the point of
\* every stops_geo row is (stop_lon, stop_lat) of its stop with the spatial
\* reference 4326, and every shapes_geo line is made of the points
\* (shape_pt_lon, shape_pt_lat) of its shape with the spatial reference 4326.
C15_LonLatOrder ==
  (pc = "backup" /\ opt.Spatialite) =>
    /\ \A r \in 1..Len(DB.tables["stops_geo"].rows) :
         LET stops == DB.tables["stops"] IN
         DB.tables["stops_geo"].rows[r] =
           << Field(stops, r, "stop_id"),
              "SRID=4326;POINT(" \o Field(stops, r, "stop_lon") \o " " \o
                                    Field(stops, r, "stop_lat") \o ")" >>
    /\ hasDBTable(DB, "shapes_geo") =>
         \A r \in 1..Len(DB.tables["shapes_geo"].rows) :
           LET row == DB.tables["shapes_geo"].rows[r] IN
           \E at \in Orders(DB.tables["shapes"], row[1]) :
             row[2] = LonLatLine(DB.tables["shapes"], at)

\* the number a text of decimal digits stands for
RECURSIVE Num(_)
Num(s) ==
  IF Len(s) = 0 THEN 0
  ELSE 10 * Num(SubSeq(s, 1, Len(s) - 1)) +
       (CHOOSE d \in 0..9 : Ch("0123456789", d + 1) = Ch(s, Len(s)))

\* the rows of the group of shape id by ascending shape_pt_sequence
BySequence(shapes, id) ==
  LET at  == RowsWith(shapes, "shape_id", id, Len(shapes.rows))
      seq == [k \in 1..Len(at) |-> Num(Field(shapes, at[k], "shape_pt_sequence"))]
  IN  [k \in 1..Len(at) |->
         at[CHOOSE i \in 1..Len(at) : Cardinality({j \in 1..Len(at) : seq[j] < seq[i]}) = k - 1]]

\* C16 (as claimed): when buildSpatialShapes has returned well, shapes_geo
\* holds one row for every shape_id of shapes and no other, and the line of
\* a row goes through the points of its shape by ascending shape_pt_sequence,
\* whatever the order of the rows in shapes.
C16_WaypointsBySequence ==
  (pc = "buildSpatialRoutes") =>
    LET shapes == DB.tables["shapes"]
        geo    == DB.tables["shapes_geo"]
    IN  /\ [r \in 1..Len(geo.rows) |-> geo.rows[r][1]] = ShapeIds(shapes)
        /\ \A r \in 1..Len(geo.rows) :
             geo.rows[r][2] = LonLatLine(shapes, BySequence(shapes, geo.rows[r][1]))

\* C17: buildSpatialite without the geometry extension returns an error that
\* ends the run with no table created, dropped or populated; whenever it
\* does not fail it goes on to derive, and a run with Spatialite gets past
\* it only with stops_geo built.
C17_NotLoadedIsFatal ==
  [][ /\ (pc = "buildSpatialite" /\ err'.msg = "spatialite is not loaded") =>
           /\ pc' = "failed" /\ err'.stage = "buildSpatialite()"
           /\ file' = file
      /\ (pc = "buildSpatialite" /\ pc' # "failed") =>
           /\ pc' = "buildSpatialStops"
           /\ DB'.geoMeta /\ DB'.tables = DB.tables
      /\ (opt.Spatialite /\ pc # "backup" /\ pc' = "backup") =>
           UpToDate(DB', "stops_geo") ]_vars

\* C17 witness: a run over a kept file that holds the derived tables has
\* ended with the error of the missing extension, the file as it was
C17_Witness ==
  /\ pc = "failed" /\ err.msg = "spatialite is not loaded"
  /\ opt.KeepDB /\ opt.Spatialite
  /\ \A t \in DerivedTables : hasDBTable(file.db, t)
  /\ file = atStart

\* derived table t and its registration in d
Derived(d, t) ==
  [table |-> IF hasDBTable(d, t) THEN <<d.tables[t]>> ELSE <<>>, geo |-> Registered(d, t)]

\* C18: buildSpatialRoutes starts only from a buildSpatialShapes that has
\* returned well, and that one only from a buildSpatialStops that has
\* returned well, so it finds stops_geo and shapes_geo complete; the steps of
\* the two before it, failing or not, leave routes_geo as it is.
C18_RoutesAfterStopsAndShapes ==
  [][ /\ (pc' = "buildSpatialRoutes" /\ pc # pc') =>
           /\ pc = "buildSpatialShapes" /\ runs' = runs
           /\ UpToDate(DB', "stops_geo") /\ UpToDate(DB', "shapes_geo")
      /\ (pc' = "buildSpatialShapes" /\ pc # pc') =>
           /\ pc = "buildSpatialStops" /\ runs' = runs
           /\ UpToDate(DB', "stops_geo")
      /\ pc \in {"buildSpatialite", "buildSpatialStops", "buildSpatialShapes"} =>
           /\ Derived(file'.db, "routes_geo") = Derived(file.db, "routes_geo")
           /\ pc' # "failed" => Derived(DB', "routes_geo") = Derived(DB, "routes_geo") ]_vars

\* C18 witness: buildSpatialShapes has failed in a run over a kept file whose
\* routes_geo had a wrong row count, and routes_geo is still as it was
C18_Witness ==
  /\ pc = "failed" /\ HasPrefix(err.msg, "buildSpatialShapes()")
  /\ opt.KeepDB
  /\ Stale(atStart.db, "routes_geo")
  /\ Derived(file.db, "routes_geo") = Derived(atStart.db, "routes_geo")

(***************************************************************************)
(* Cleanup: what the claims speak of.                                     *)
(***************************************************************************)
\* cleanGTFS runs the rule cleanMTANYCT on d
RuleRuns(d) ==
  /\ HasCols(d, "agency", {"agency_id", "agency_name"})
  /\ MTANYCT \in Range(getAgencies(d))
  /\ HasCols(d, "trips", {"shape_id", "trip_id"})

\* the fuzzy key of a trip: its trip_id from character 21 on
Fuzzy(trips, r) == Drop(Field(trips, r, "trip_id"), 20)

\* C19 (as claimed): a cleanGTFS step that runs the rule cleanMTANYCT either
\* leaves no trips row with an empty shape_id, or returns an error with the
\* trips table, in the working database and in the target file, as it was
\* before the step.
C19_CleanAllOrNothing ==
  [][ (pc = "cleanGTFS" /\ RuleRuns(DB)) =>
        IF pc' = "failed"
          THEN file'.db.tables = file.db.tables
          ELSE DefectCount(DB') = 0 ]_vars

\* C20 (as claimed): when cleanGTFS has run the rule cleanMTANYCT and
\* returned well, every trips row that had an empty shape_id and whose fuzzy
\* key is the shape_id of a shape has that shape_id.
C20_StrongBeforeWeak ==
  [][ (pc = "cleanGTFS" /\ RuleRuns(DB) /\ pc' # "failed") =>
        \A r \in 1..Len(DB.tables["trips"].rows) :
          ( /\ Defective(DB.tables["trips"], r)
            /\ HasCols(DB, "shapes", {"shape_id"})
            /\ Fuzzy(DB.tables["trips"], r) \in Range(ShapeIds(DB.tables["shapes"])) ) =>
            Field(DB'.tables["trips"], r, "shape_id") = Fuzzy(DB.tables["trips"], r) ]_vars

\* the number of rows of shapes that shape id has
Points(shapes, id) ==
  Cardinality({k \in 1..Len(shapes.rows) : Field(shapes, k, "shape_id") = id})

\* the key of the defect group of a trip: characters 21..24 of its trip_id
GroupKey(trips, r) == Substr(Field(trips, r, "trip_id"), 21, 4)

\* the strong candidates for a trip: the shapes named like its fuzzy key
StrongTier(d, r) ==
  {id \in Range(ShapeIds(d.tables["shapes"])) : id = Fuzzy(d.tables["trips"], r)}

\* the weak candidates for a trip: the shapes whose name begins with the key
\* of its group
WeakTier(d, r) ==
  {id \in Range(ShapeIds(d.tables["shapes"])) : HasPrefix(id, GroupKey(d.tables["trips"], r))}

\* the candidates of the preferred tier
Preferred(d, r) == IF StrongTier(d, r) # {} THEN StrongTier(d, r) ELSE WeakTier(d, r)

C22_RepairedByOwnKey ==
  [][ (/\ pc = "cleanGTFS" /\ RuleRuns(DB) /\ HasCols(DB, "shapes", {"shape_id"})
       /\ pc' # "failed") =>
        \A r \in 1..Len(DB.tables["trips"].rows) :
          Defective(DB.tables["trips"], r) =>
            LET new == Field(DB'.tables["trips"], r, "shape_id") IN
            /\ new \in WeakTier(DB, r)
            /\ \A c \in WeakTier(DB, r) :
                 Points(DB.tables["shapes"], c) <= Points(DB.tables["shapes"], new) ]_vars

\* the cleaned marker is set on a checkpoint row of trips in d
Marked(d) == \E i \in 1..Len(d.meta) : d.meta[i].tablename = "trips" /\ d.meta[i].cleaned = "1"

\* row r of trips in d has an empty shape_id and no candidate in either tier
NoCandidate(d, r) ==
  /\ Defective(d.tables["trips"], r)
  /\ HasCols(d, "shapes", {"shape_id"}) => StrongTier(d, r) \cup WeakTier(d, r) = {}

\* C23: when cleanGTFS runs the rule cleanMTANYCT on a store where some trips
\* row of empty shape_id has no candidate shape in either tier, cleanGTFS
\* returns an error, Build fails with it, and no checkpoint row of trips has
\* the cleaned marker, in the working database or in the target file.
C23_NoCandidateIsError ==
  [][ (/\ pc = "cleanGTFS" /\ RuleRuns(DB)
       /\ \E r \in 1..Len(DB.tables["trips"].rows) : NoCandidate(DB, r)) =>
        /\ pc' = "failed" /\ err'.stage = "cleanGTFS()"
        /\ ~Marked(file'.db) /\ ~Marked(mem') ]_vars

\* C23 witness: the rule has found no shape for a group whose trip is still
\* in the kept file without shape_id
C23_Witness ==
  /\ pc = "failed" /\ err.stage = "cleanGTFS()" /\ err.cause = "input"
  /\ err.msg = MTANYCT \o ": failed to find similar shape"
  /\ opt.KeepDB /\ RuleRuns(file.db)
  /\ \E r \in 1..Len(file.db.tables["trips"].rows) : NoCandidate(file.db, r)
  /\ ~Marked(file.db)

\* the checkpoint rows of d2 are those of d1 with the cleaned marker set on
\* the rows of trips and on no other
MarkedTripsOnly(d1, d2) ==
  /\ Len(d2.meta) = Len(d1.meta)
  /\ \A i \in 1..Len(d1.meta) :
       d2.meta[i] = IF d1.meta[i].tablename = "trips"
                      THEN [d1.meta[i] EXCEPT !.cleaned = "1"] ELSE d1.meta[i]

\* C24: when cleanGTFS runs the rule cleanMTANYCT on trips with empty
\* shape_ids, either it returns an error and no checkpoint row of trips has
\* the cleaned marker, or it returns well, and then no trips row has an empty
\* shape_id any more and the marker is set on the checkpoint row of trips and
\* on no other row.
C24_MarkerAfterRecount ==
  [][ (pc = "cleanGTFS" /\ RuleRuns(DB) /\ DefectCount(DB) > 0) =>
        IF pc' = "failed"
          THEN ~Marked(file'.db) /\ ~Marked(mem')
          ELSE /\ DefectCount(DB') = 0
               /\ Marked(DB') /\ MarkedTripsOnly(DB, DB') ]_vars

\* C24 witness: the rule has repaired the trips of a feed that came with empty
\* shape_ids, and the marker is set
C24_Witness ==
  /\ pc = "backup" /\ runs = 1 /\ stages[Len(stages)] = "cleanGTFS"
  /\ RuleRuns(DB) /\ DefectCount(DB) = 0 /\ Marked(DB)
  /\ \E r \in 1..Len(ResourceOf("trips").rows) : ResourceOf("trips").rows[r][4] = ""

\* C25: when cleanGTFS runs the rule cleanMTANYCT on trips without any empty
\* shape_id, the rule returns well at once and nothing is changed, neither a
\* row or column of trips nor a row of gtfs_metadata nor anything else in the
\* working database and the target file; only a statement failing for a
\* reason outside the program makes it return an error, and then too the
\* target file is as it was.
C25_NothingToCleanNoOp ==
  [][ (pc = "cleanGTFS" /\ RuleRuns(DB) /\ DefectCount(DB) = 0) =>
        /\ file' = file
        /\ IF pc' = "failed" THEN err'.cause = "outside" ELSE mem' = mem ]_vars

\* C25 witness: a second run on the file of a run that repaired trips has gone
\* through cleanGTFS and left the file as it found it
C25_Witness ==
  /\ runs = 2 /\ opt.KeepDB /\ pc = "backup" /\ stages[Len(stages)] = "cleanGTFS"
  /\ RuleRuns(file.db) /\ Marked(atStart.db) /\ file = atStart
  /\ \E r \in 1..Len(ResourceOf("trips").rows) : ResourceOf("trips").rows[r][4] = ""

\* C26 (as claimed): every pass of the import loop over a resource of m
\* records either leaves the loop or has taken at least one more record, so
\* that the loop ends; every insert statement issued carries the next 1 to
\* csvReadRowsLimit records, in their order, and none is issued without rows;
\* when the loop is left for the indexes, ceil(m / csvReadRowsLimit)
\* statements have carried the m records.
C26_BatchesExact ==
  [][ pc = "batch" =>
        LET m == Len(F.rows)
            n == Len(F.header)
        IN  /\ pos' <= m
            /\ pc' = "batch" => pos' > pos
            /\ stmts' # stmts =>
                 /\ stmts' = Append(stmts, pos' - pos)
                 /\ pos' - pos \in 1..csvReadRowsLimit
                 /\ pos = Sum(stmts)
            /\ (stmts' # stmts /\ pc' # "failed") =>
                 DB'.tables[tablename].rows =
                   DB.tables[tablename].rows
                     \o ExecInsert(n, CleanValuesStr(BatchValues(SubSeq(F.rows, pos + 1, pos'), n))).rows
            /\ pc' = "index" =>
                 /\ Len(stmts') = (m + csvReadRowsLimit - 1) \div csvReadRowsLimit
                 /\ Sum(stmts') = m ]_vars

\* C27: gtfs_metadata never holds more than one checkpoint row for a table,
\* in the working database and in the target file, whatever runs came before
\* and however often the archive lists a resource.
C27_OneCheckpointPerTable ==
  \A d \in {file.db, mem} :
    \A i, j \in 1..Len(d.meta) : d.meta[i].tablename = d.meta[j].tablename => i = j

\* C27 witness: a run over an archive that lists a resource twice has ended
\* well, with the checkpoint row of its table in the target file
C27_Witness ==
  /\ pc = "done"
  /\ \E i, j \in 1..Len(gtfs) :
       /\ i < j /\ gtfs[i].name = gtfs[j].name /\ isGTFS(gtfs[i].name).valid
       /\ Checkpointed(file.db, TableOf(gtfs[i].name))

\* C28 (as claimed): whatever the number of fields of the records read in a
\* pass of the import loop, every row the table holds after the pass has
\* exactly len(header) fields; a pass that issued its statement has added one
\* row per record, with the record's first len(header) fields trimmed and
\* with empty strings where the record had fewer; and the statement of a pass
\* that holds rows is never refused for its content.
C28_RowsFitHeader ==
  [][ pc = "batch" =>
        LET n    == Len(F.header)
            last == IF pos + csvReadRowsLimit <= Len(F.rows) THEN pos + csvReadRowsLimit
                    ELSE Len(F.rows)
            recs == SubSeq(F.rows, pos + 1, last)
            old  == DB.tables[tablename].rows
        IN  /\ pc' # "failed" =>
                 \A k \in 1..Len(DB'.tables[tablename].rows) :
                   Len(DB'.tables[tablename].rows[k]) = n
            /\ (pc' # "failed" /\ stmts' # stmts) =>
                 DB'.tables[tablename].rows = old \o ExpectedRows(recs, n)
            /\ ~(/\ pc' = "failed" /\ stmts' = stmts
                 /\ err'.msg = "failed to insert" /\ err'.cause = "input") ]_vars

\* the run is inside the callback of setupDB: import, cleanup or spatial
\* derivation
InSetupFn ==
  pc \in {"importGTFS", "file", "open", "create", "batch", "index", "checkpoint",
          "cleanGTFS", "buildSpatialite", "buildSpatialStops", "buildSpatialShapes",
          "buildSpatialRoutes"}

\* C29: without KeepDB no step of import, cleanup or spatial derivation,
\* failing or not, opens or writes the target file, which is not there; it is
\* written after the callback of setupDB returned well, as the copy of the
\* store in memory.  With KeepDB every such step leaves the store in memory
\* empty, and the step after the callback leaves the file as the callback
\* left it.
C29_TargetWrittenAfterSetup ==
  [][ /\ (InSetupFn /\ ~opt.KeepDB) => (file' = file /\ ~file.exists)
      /\ (InSetupFn /\ opt.KeepDB) => (file.exists /\ mem = EmptyDB /\ mem' = EmptyDB)
      /\ (pc = "backup" /\ opt.KeepDB) => file' = file
      /\ (pc = "backup" /\ ~opt.KeepDB /\ pc' # "failed") =>
           file' = [exists |-> TRUE, db |-> mem] ]_vars

\* C29 witness: a run without KeepDB has imported a feed and failed in the
\* spatial derivation, and there is no target file
C29_Witness ==
  /\ pc = "failed" /\ err.stage = "buildSpatialite()" /\ ~opt.KeepDB
  /\ opened # {} /\ ~file.exists

\* store a is store b but for what the cleanup rule may change: the shape_id
\* of trips rows that had none, and the cleaned marker of checkpoint rows of
\* trips
OnlyRepaired(b, a) ==
  /\ DOMAIN a.tables = DOMAIN b.tables
  /\ \A t \in DOMAIN b.tables \ {"trips"} : a.tables[t] = b.tables[t]
  /\ a.tables["trips"].cols = b.tables["trips"].cols
  /\ a.tables["trips"].idx = b.tables["trips"].idx
  /\ Len(a.tables["trips"].rows) = Len(b.tables["trips"].rows)
  /\ \A r \in 1..Len(b.tables["trips"].rows) :
       IF Defective(b.tables["trips"], r)
         THEN \A c \in 1..Len(b.tables["trips"].cols) :
                b.tables["trips"].cols[c] # "shape_id" =>
                  a.tables["trips"].rows[r][c] = b.tables["trips"].rows[r][c]
         ELSE a.tables["trips"].rows[r] = b.tables["trips"].rows[r]
  /\ a.geo = b.geo /\ a.geoMeta = b.geoMeta /\ a.hasMeta = b.hasMeta
  /\ Len(a.meta) = Len(b.meta)
  /\ \A i \in 1..Len(b.meta) :
       /\ a.meta[i].tablename = b.meta[i].tablename
       /\ b.meta[i].tablename # "trips" => a.meta[i] = b.meta[i]

\* C30: a cleanGTFS step that runs the rule cleanMTANYCT, returning well or
\* not, changes in the working database and in the target file nothing but
\* the shape_id of trips rows that had an empty shape_id before the step and
\* the cleaned marker of trips: every other trips row and field, the number
\* of trips rows, the columns and indexes of trips and every other table stay
\* as they were.
C30_OnlyDefectiveRowsChange ==
  [][ (pc = "cleanGTFS" /\ RuleRuns(DB)) =>
        /\ pc' # "failed" => OnlyRepaired(DB, DB')
        /\ (pc' = "failed" /\ opt.KeepDB) => OnlyRepaired(file.db, file'.db)
        /\ (pc' = "failed" /\ ~opt.KeepDB) => file' = file ]_vars

\* C30 witness: the rule has repaired a trip of a feed that has another trip
\* with its shape_id, and that trip is as it came
C30_Witness ==
  /\ pc = "backup" /\ stages[Len(stages)] = "cleanGTFS" /\ RuleRuns(DB) /\ Marked(DB)
  /\ \E r \in 1..Len(ResourceOf("trips").rows) : ResourceOf("trips").rows[r][4] = ""
  /\ \E r \in 1..Len(ResourceOf("trips").rows) :
       /\ ResourceOf("trips").rows[r][4] # ""
       /\ DB.tables["trips"].rows[r] = ResourceOf("trips").rows[r]

====
